---- MODULE Spec2Model ----
(***************************************************************************)
(* Progression and loot-resolution engine of the rock card collector.      *)
(*                                                                         *)
(* The repository holds two drafts of the same game:                       *)
(*   - src/script.js            ("Phase 2: The Core Loop"), and            *)
(*   - src/unnamed/part_000     ("Refactored Phase 2 ... Cleaned").        *)
(* Both are modelled.  The variable draft, fixed for a whole behaviour,    *)
(* says which of the two files the page has loaded.  An operator whose     *)
(* name ends in _script is the script.js text of a function; the operator   *)
(* without the suffix is the part_000 text.  Where the two texts compute    *)
(* the same thing there is one operator.                                    *)
(*                                                                         *)
(* Time is Date.now() in milliseconds.  A draw is Math.random() * 100,     *)
(* kept in thousandths of a percent so that it stays an integer: the draw  *)
(* 99.999 is 99999 and a chance of 5 (percent) is Percent(5) = 5000.       *)
(***************************************************************************)
EXTENDS Integers, Sequences, FiniteSets, TLC

VARIABLES
    draft,             \* which source file the page runs
    now,               \* the wall clock, Date.now()
    pc,                \* position of initGame, "ready" once the page is interactive
    gameState,         \* let gameState
    localStorage,      \* localStorage['rockGameState']: <<>> or <<blob>>
    gameTickInterval,  \* TRUE once setInterval(onGameTick, 1000) has run
    uiDrawn,           \* TRUE once updateUI() has drawn the page
    packModal,         \* the cards showPackModal last put in the reveal grid
    lastCall,          \* history: the handler that ran last and its arguments
    catalog,           \* which master data loadMasterData fetches
    query,             \* history: the read-only query made last and its value
    conversionSelection,  \* let conversionSelection
    minigameState,     \* minigameState.fishing (fishingState, fishingTimeout),
                       \* minigameState.sifting (siftingTimer, siftingSecondsLeft,
                       \* siftingFindList, siftingRocksInSieve) and what the
                       \* minigame page shows
    timers             \* the timers of setTimeout and setInterval that are pending

vars == <<draft, now, pc, gameState, localStorage, gameTickInterval, uiDrawn,
          packModal, lastCall, catalog, query, conversionSelection,
          minigameState, timers>>

(***************************************************************************)
(* Bounds of the model.                                                    *)
(***************************************************************************)
\* claimExpedition is not taken once the player holds this many packs
MaxTotalPacks == 6

\* the instants the clock can show; they hold the expiry of each slot started
\* at 0, the instants just before and after the shortest expiry, and a gap of
\* ten times the shortest duration
Times == {0, 100000, 200000, 300000, 300001, 3000000, 3600000, 28800000}

\* the draws Math.random() * 100 can give, in thousandths of a percent
Rolls == {0, 4999, 5000, 99999}

\* openPack is not taken once this many packs were opened
MaxOpens == 2

\* the pack types openPack is called with: the one every save holds and one
\* that no save holds
Clicked == {"basic", "explorer"}

\* the number of cards of the full catalog
FullSize == 204

\* the draws a weighted table is resolved with: 0, the greatest draw, and the
\* draws next to the cumulative weights of the tables
\* the draws Math.random() can give when a card is picked from a list, in
\* units of 1/100000: the first and the last card
Picks == {0, 99999}

\* a selection for conversion holds this many stacks at most
MaxSelected == 2

\* the numbers of copies of a stack a selection can hold, as far as the stack
\* has spare copies
SelectCounts == {1, 2, 9, 10, 20, 33, 99}

\* the point totals a reward is looked up for: 0 and both sides of every
\* threshold
Points == {0, 9, 10, 29, 30, 99, 100, 249, 250, 999, 1000, 1001}

\* the sifting game is not won and the fishing button not clicked once this
\* many minigame cards are held
MaxWild == 1

\* cards are not converted and the fishing button is not clicked once this
\* many packs are held
MaxHeld == 2

\* the most packs opened next to the converter
MaxTraded == 1

\* the draws the sifting reward is rolled with: a card, nothing
SiftDraws == {40000, 99999}

\* the regions a wild card is asked from: the starter region, the second
\* region, a region only one catalog has and a region no catalog has
Requested == {"riverbed", "desert", "cave", "coast"}

TableDraws ==
    {0, 999, 1000, 4999, 5000, 9999, 10000, 39999, 40000, 49999, 50000, 69999,
     70000, 79999, 80000, 99999}

\* the draws the wild rarity is rolled with: 0, the greatest draw, and the
\* draws next to the cumulative chances 0.2, 0.7, 10 and 30
WildDraws == {0, 199, 200, 699, 700, 9999, 10000, 29999, 30000, 99999}

\* the draws of one pass of openPack's loop
CardDraws ==
    [rarity : {0, 9999, 10000, 99999}, pick : {0, 99999},
     foil : {0, 99999}, art : {0, 1500, 99999}]

(***************************************************************************)
(* Constants of the program.                                               *)
(***************************************************************************)
ScriptJs == "script.js"
Part000 == "part_000"
Drafts == {ScriptJs, Part000}

Slots == 0 .. 2

PackTypes == {"basic", "explorer", "advanced", "deluxe", "collector"}

Percent(x) == x * 1000

EXPEDITION_DATA ==
    [i \in Slots |->
        CASE i = 0 -> [durationMs |-> 5 * 60 * 1000, basePack |-> "basic",
                       bonusPack |-> "explorer", bonusChance |-> 5]
          [] i = 1 -> [durationMs |-> 60 * 60 * 1000, basePack |-> "explorer",
                       bonusPack |-> "advanced", bonusChance |-> 5]
          [] i = 2 -> [durationMs |-> 8 * 60 * 60 * 1000, basePack |-> "advanced",
                       bonusPack |-> "deluxe", bonusChance |-> 5]]

\* Ordered from RAREST to MOST COMMON
RARITY_ORDER == <<"special", "legendary", "mythic", "rare", "uncommon", "common">>

\* an entry of a loot table; a chance is kept in thousandths of a percent, as
\* a draw is
Loot(type, packType, region, chance) ==
    [type |-> type, packType |-> packType, region |-> region,
     chance |-> Percent(chance)]

FISHING_REWARDS ==
    <<Loot("pack", "advanced", "none", 1), Loot("pack", "explorer", "none", 4),
      Loot("pack", "basic", "none", 35), Loot("card", "none", "riverbed", 30),
      Loot("none", "none", "none", 30)>>

SIFTING_REWARDS ==
    <<Loot("pack", "advanced", "none", 1), Loot("pack", "explorer", "none", 4),
      Loot("pack", "basic", "none", 35), Loot("card", "none", "desert", 30),
      Loot("none", "none", "none", 30)>>

\* legendary 0.2, mythic 0.5, rare 9.3, uncommon 20, common 70
WILD_RARITY_CHANCE ==
    <<[rarity |-> "legendary", chance |-> Percent(2) \div 10],
      [rarity |-> "mythic", chance |-> Percent(5) \div 10],
      [rarity |-> "rare", chance |-> Percent(93) \div 10],
      [rarity |-> "uncommon", chance |-> Percent(20)],
      [rarity |-> "common", chance |-> Percent(70)]>>

CONVERSION_POINTS ==
    [r \in {"common", "uncommon", "rare", "mythic", "legendary", "special"} |->
        CASE r = "common" -> 1 [] r = "uncommon" -> 3 [] r = "rare" -> 10
          [] r = "mythic" -> 30 [] r = "legendary" -> 100 [] r = "special" -> 0]

\* Point thresholds for pack conversion
PACK_THRESHOLDS ==
    <<[name |-> "collector", points |-> 1000], [name |-> "deluxe", points |-> 250],
      [name |-> "advanced", points |-> 100], [name |-> "explorer", points |-> 30],
      [name |-> "basic", points |-> 10]>>

\* the reward of a selection that meets no threshold
NoPack == [name |-> "none", points |-> 0]

UNLOCK_GOALS_FOIL == 50
UNLOCK_GOALS_ALT_ART_1 == 100
UNLOCK_GOALS_ALT_ART_2 == 200

FOIL_CHANCE == 1

\* VARIANT_RATES.ART_CHANCES: percentages for <<base, alt1, alt2>>
ART_CHANCES_LOCKED == <<100, 0, 0>>
ART_CHANCES_ALT_1_UNLOCKED == <<99, 1, 0>>
ART_CHANCES_ALT_2_UNLOCKED == <<98, 1, 1>>

(***************************************************************************)
(* The catalogs loadMasterData fetches: cards.json, packs.json and         *)
(* regions.json.  The files are not part of the sources.  The variable     *)
(* catalog, fixed for a whole behaviour, says which set of files the       *)
(* server holds:                                                           *)
(*   - demo: a small catalog of the documented shape, with a starter       *)
(*     region unlocked at 0 packs, a region unlocked by unique cards, and  *)
(*     the basic pack of the documented scenario;                          *)
(*   - noTable: demo, but packs.json has no rarity table for basic packs;  *)
(*   - noCommons: the starter region has no common card, and a region      *)
(*     that is unlocked from the start has no card at all;                 *)
(*   - full: FullSize cards of all rarities in two regions, enough for the *)
(*     alt-art goals to be met.                                            *)
(***************************************************************************)
DemoCatalog == "demo"
NoTableCatalog == "noTable"
NoCommonsCatalog == "noCommons"
FullCatalog == "full"
Catalogs == {DemoCatalog, NoTableCatalog, NoCommonsCatalog, FullCatalog}

DemoRegions ==
    [r \in {"riverbed", "desert"} |->
        IF r = "riverbed" THEN [type |-> "packs", value |-> 0]
                          ELSE [type |-> "unique", value |-> 2]]

NoCommonsRegions ==
    [r \in {"riverbed", "desert", "cave"} |->
        IF r = "desert" THEN [type |-> "unique", value |-> 2]
                        ELSE [type |-> "packs", value |-> 0]]

DemoCards ==
    [id \in {"rock-001", "rock-002", "rock-003"} |->
        CASE id = "rock-001" -> [rarity |-> "common", region |-> "riverbed"]
          [] id = "rock-002" -> [rarity |-> "uncommon", region |-> "riverbed"]
          [] id = "rock-003" -> [rarity |-> "rare", region |-> "desert"]]

NoCommonsCards ==
    [id \in {"rock-001", "rock-002", "rock-003"} |->
        CASE id = "rock-001" -> [rarity |-> "common", region |-> "desert"]
          [] id = "rock-002" -> [rarity |-> "uncommon", region |-> "riverbed"]
          [] id = "rock-003" -> [rarity |-> "rare", region |-> "desert"]]

\* the cards of the full catalog are numbered; odd numbers are riverbed
\* cards, even numbers desert cards, and the rarities take turns
FullCardIds == [k \in 1 .. FullSize |-> "rock-" \o ToString(k)]

FullCards ==
    [id \in {FullCardIds[k] : k \in 1 .. FullSize} |->
        LET k == CHOOSE n \in 1 .. FullSize : FullCardIds[n] = id
        IN  [rarity |-> RARITY_ORDER[(k % 6) + 1],
             region |-> IF k % 2 = 1 THEN "riverbed" ELSE "desert"]]

DemoPacks ==
    [p \in PackTypes |->
        IF p = "basic"
        THEN [r \in {"uncommon", "common"} |-> IF r = "common" THEN 90 ELSE 10]
        ELSE [r \in {"rare", "uncommon", "common"} |->
                 CASE r = "rare" -> 10 [] r = "uncommon" -> 30 [] r = "common" -> 60]]

NoTablePacks == [p \in PackTypes \ {"basic"} |-> DemoPacks[p]]

\* a pack without commons whose chances add up to 80
ShortPack == [r \in {"rare", "uncommon"} |-> IF r = "rare" THEN 50 ELSE 30]

\* a pack of the rarest and the most common tier
LongShotPack == [r \in {"legendary", "common"} |-> IF r = "common" THEN 99 ELSE 1]

\* the rarity tables packs.json can hold: every listed chance is positive and
\* the chances add up to 100 at most
PackTables == {DemoPacks["basic"], DemoPacks["explorer"], ShortPack, LongShotPack}

\* Object.keys(allRegionsData), in file order
RegionIds ==
    IF catalog = NoCommonsCatalog THEN <<"riverbed", "desert", "cave">>
    ELSE <<"riverbed", "desert">>

allRegionsData ==
    IF catalog = NoCommonsCatalog THEN NoCommonsRegions ELSE DemoRegions

\* Object.keys(allCardsData), in file order
CardIds ==
    IF catalog = FullCatalog THEN FullCardIds
    ELSE <<"rock-001", "rock-002", "rock-003">>

allCardsData ==
    CASE catalog = FullCatalog -> FullCards
      [] catalog = NoCommonsCatalog -> NoCommonsCards
      [] OTHER -> DemoCards

\* a pack's rules list only the rarities it can give
allPacksData ==
    IF catalog = NoTableCatalog THEN NoTablePacks ELSE DemoPacks

\* the value of a property that was never assigned
Undefined == -1

\* a cardId that is undefined
UndefinedId == "undefined"

\* the result null
Null == "null"

\* stands for the cards of a loop that never ran
NoCard == [cardId |-> UndefinedId, art |-> 0, foil |-> "normal", isNew |-> FALSE]

\* exp.rewards of a slot that has none
NoRewards == [type |-> "undefined", packType |-> "undefined", count |-> 0]

\* { status: "empty" }
EmptySlot ==
    [status |-> "empty", slotIndex |-> Undefined, endTs |-> Undefined,
     rewards |-> NoRewards]

defaultExpeditions == [i \in Slots |-> EmptySlot]

defaultPacks == [p \in PackTypes |-> IF p = "basic" THEN 5 ELSE 0]

\* let gameState = {}  (before loadState has run)
Unloaded ==
    [player |-> [packsOpened |-> 0, uniquesOwned |-> 0,
                 packsInventory |-> [p \in PackTypes |-> 0]],
     inventory |-> [cards |-> <<>>],
     expeditions |-> defaultExpeditions]

\* { background: 'bg-forest', frame: 'frame-1', slots: six nulls }
defaultMuseum ==
    [background |-> "bg-forest", frame |-> "frame-1",
     slots |-> [i \in 1 .. 6 |-> Null]]

\* the state loadState builds when there is no save
NewGame ==
    [player |-> [packsOpened |-> 0, uniquesOwned |-> 0,
                 packsInventory |-> defaultPacks],
     inventory |-> [cards |-> <<>>],
     expeditions |-> defaultExpeditions,
     museum |-> defaultMuseum]

(***************************************************************************)
(* A handler's result: the game state it leaves and the stored blob.       *)
(***************************************************************************)
Result(gs, ls) == [state |-> gs, stored |-> ls, threw |-> FALSE]

\* the handler ended in an uncaught TypeError: what it had done so far stays
Thrown(gs, ls) == [state |-> gs, stored |-> ls, threw |-> TRUE]

\* localStorage.setItem('rockGameState', JSON.stringify(gameState))
saveState(gs) == <<gs>>

\* loadState that gives a blob without a player section the player of a new
\* game (C26 would hold of it for the player section)
loadState_playerPatched(d8, ls) ==
    IF Len(ls) = 0 THEN Result(NewGame, saveState(NewGame))
    ELSE LET patched == ls[1] @@ [museum |-> defaultMuseum,
                                  expeditions |-> defaultExpeditions,
                                  player |-> NewGame.player]
         IN  IF patched # ls[1] THEN Result(patched, saveState(patched))
             ELSE Result(patched, ls)

\* loadState: parse the stored blob and patch it, or build and save a new
\* game. A blob without museum or expeditions gets the default; reading
\* gameState.player.packsInventory of a blob without player is a TypeError;
\* a player without packsInventory gets the default packs (part_000) or an
\* empty object (script.js), and every missing pack key gets 0
loadState(d8, ls) ==
    IF Len(ls) = 0 THEN Result(NewGame, saveState(NewGame))
    ELSE LET parsed == ls[1]
             withMuseum == IF "museum" \in DOMAIN parsed THEN parsed
                           ELSE parsed @@ [museum |-> defaultMuseum]
             withExpeditions == IF "expeditions" \in DOMAIN withMuseum
                                THEN withMuseum
                                ELSE withMuseum @@ [expeditions |-> defaultExpeditions]
             had == IF "packsInventory" \in DOMAIN withExpeditions.player
                    THEN withExpeditions.player.packsInventory
                    ELSE IF d8 = ScriptJs THEN <<>> ELSE defaultPacks
             packs == [t \in PackTypes |-> IF t \in DOMAIN had THEN had[t] ELSE 0]
             patched == [player |-> [packsOpened |-> withExpeditions.player.packsOpened,
                                     uniquesOwned |-> withExpeditions.player.uniquesOwned,
                                     packsInventory |-> packs]]
                        @@ withExpeditions
         IN  IF "player" \notin DOMAIN parsed THEN Thrown(withExpeditions, ls)
             ELSE IF patched # parsed THEN Result(patched, saveState(patched))
             ELSE Result(patched, ls)

(***************************************************************************)
(* Expeditions.                                                            *)
(***************************************************************************)
\* one roll against bonusChance decides base or bonus pack
generateExpeditionRewards(index, roll) ==
    LET data == EXPEDITION_DATA[index]
        hitBonus == roll < Percent(data.bonusChance)
    IN  [type |-> "pack",
         packType |-> IF hitBonus THEN data.bonusPack ELSE data.basePack,
         count |-> 1]

\* checkLoop with the comparison Date.now() > exp.endTs: a slot whose endTs is
\* the load time itself is left out (C8 tells this from checkLoop)
RECURSIVE checkLoop_strict(_, _, _, _)
checkLoop_strict(gs, i, t, rolls) ==
    IF i \notin Slots THEN gs
    ELSE LET exp == gs.expeditions[i]
         IN  IF exp.status = "out" /\ t > exp.endTs
             THEN checkLoop_strict([gs EXCEPT
                                       !.expeditions[i].status = "complete",
                                       !.expeditions[i].rewards =
                                           generateExpeditionRewards(i, rolls[i])],
                                   i + 1, t, rolls)
             ELSE checkLoop_strict(gs, i + 1, t, rolls)

\* gameState.expeditions.forEach of checkAllExpeditions, from slot i on
RECURSIVE checkLoop(_, _, _, _)
checkLoop(gs, i, t, rolls) ==
    IF i \notin Slots THEN gs
    ELSE LET exp == gs.expeditions[i]
         IN  IF exp.status = "out" /\ t >= exp.endTs
             THEN checkLoop([gs EXCEPT
                                !.expeditions[i].status = "complete",
                                !.expeditions[i].rewards =
                                    generateExpeditionRewards(i, rolls[i])],
                            i + 1, t, rolls)
             ELSE checkLoop(gs, i + 1, t, rolls)

\* checkAllExpeditions: the load-time catch-up; the same text in both drafts
checkAllExpeditions(gs, ls, t, rolls) ==
    LET after == checkLoop(gs, 0, t, rolls)
    IN  Result(after, saveState(after))

\* gameState.expeditions.forEach of onGameTick (part_000), from slot i on
RECURSIVE tickLoop(_, _, _, _, _)
tickLoop(gs, ls, i, t, rolls) ==
    IF i \notin Slots THEN Result(gs, ls)
    ELSE LET exp == gs.expeditions[i]
             left == exp.endTs - t
         IN  IF exp.status = "out" /\ left <= 0
             THEN LET done == [gs EXCEPT
                                  !.expeditions[i].status = "complete",
                                  !.expeditions[i].rewards =
                                      generateExpeditionRewards(i, rolls[i])]
                  IN  tickLoop(done, saveState(done), i + 1, t, rolls)
             ELSE tickLoop(gs, ls, i + 1, t, rolls)

\* onGameTick of part_000
onGameTick(gs, ls, t, rolls) == tickLoop(gs, ls, 0, t, rolls)

\* gameState.expeditions.forEach of onGameTick (script.js), from slot i on.
\* The reward is asked for exp.region, a property no code gives a slot, so
\* EXPEDITION_DATA[undefined] is undefined and reading its basePack is a
\* TypeError that leaves the forEach and the handler.
RECURSIVE tickLoop_script(_, _, _, _, _)
tickLoop_script(gs, ls, i, t, rolls) ==
    IF i \notin Slots THEN Result(gs, ls)
    ELSE LET exp == gs.expeditions[i]
             timeLeft == exp.endTs - t
             region == Undefined
         IN  IF exp.status = "out" /\ timeLeft <= 0
             THEN LET marked == [gs EXCEPT !.expeditions[i].status = "complete"]
                  IN  IF region \notin DOMAIN EXPEDITION_DATA
                      THEN Thrown(marked, ls)
                      ELSE LET done == [marked EXCEPT
                                           !.expeditions[i].rewards =
                                               generateExpeditionRewards(region, rolls[i])]
                           IN  tickLoop_script(done, saveState(done), i + 1, t, rolls)
             ELSE tickLoop_script(gs, ls, i + 1, t, rolls)

\* onGameTick of script.js
onGameTick_script(gs, ls, t, rolls) == tickLoop_script(gs, ls, 0, t, rolls)

\* startExpedition: the same text in both drafts; it tests nothing
startExpedition(gs, ls, index, t) ==
    LET duration == EXPEDITION_DATA[index].durationMs
        started == [gs EXCEPT !.expeditions[index] =
                       [status |-> "out", slotIndex |-> index,
                        endTs |-> t + duration, rewards |-> NoRewards]]
    IN  Result(started, saveState(started))

\* addPackToInventory of part_000
addPackToInventory(gs, ls, type, count) ==
    IF type \in DOMAIN gs.player.packsInventory
    THEN LET added == [gs EXCEPT !.player.packsInventory[type] = @ + count]
         IN  Result(added, saveState(added))
    ELSE Result(gs, ls)

\* addPackToInventory of script.js: it saves whether or not the type is known
addPackToInventory_script(gs, ls, packType, count) ==
    LET added == IF packType \in DOMAIN gs.player.packsInventory
                 THEN [gs EXCEPT !.player.packsInventory[packType] = @ + count]
                 ELSE gs
    IN  Result(added, saveState(added))

\* claimExpedition without its status guard, granting the reward only when
\* there is one: a slot that is out is emptied (C5 tells this from
\* claimExpedition)
claimExpedition_unguarded(gs, ls, index) ==
    LET exp == gs.expeditions[index]
        granted == IF exp.rewards # NoRewards /\ exp.rewards.type = "pack"
                   THEN addPackToInventory(gs, ls, exp.rewards.packType,
                                           exp.rewards.count)
                   ELSE Result(gs, ls)
        cleared == [granted.state EXCEPT !.expeditions[index] = EmptySlot]
    IN  Result(cleared, saveState(cleared))

\* claimExpedition of part_000
claimExpedition(gs, ls, index) ==
    LET exp == gs.expeditions[index]
    IN  IF exp.status # "complete" THEN Result(gs, ls)
        ELSE IF exp.rewards = NoRewards THEN Thrown(gs, ls)
        ELSE LET granted == IF exp.rewards.type = "pack"
                            THEN addPackToInventory(gs, ls, exp.rewards.packType,
                                                    exp.rewards.count)
                            ELSE Result(gs, ls)
                 cleared == [granted.state EXCEPT !.expeditions[index] = EmptySlot]
             IN  Result(cleared, saveState(cleared))

\* claimExpedition of script.js
claimExpedition_script(gs, ls, slotIndex) ==
    LET exp == gs.expeditions[slotIndex]
        reward == exp.rewards
    IN  IF exp.status # "complete" \/ reward = NoRewards THEN Result(gs, ls)
        ELSE LET granted == IF reward.type = "pack"
                            THEN addPackToInventory_script(gs, ls, reward.packType,
                                                           reward.count)
                            ELSE Result(gs, ls)
                 cleared == [granted.state EXCEPT !.expeditions[slotIndex] = EmptySlot]
             IN  Result(cleared, saveState(cleared))

(***************************************************************************)
(* Regions, card resolution and pack opening.                              *)
(***************************************************************************)
Includes(seq, x) == \E k \in DOMAIN seq : seq[k] = x

\* getUniqueCardCount: the number of distinct cardIds owned
getUniqueCardCount(gs) ==
    Cardinality({gs.inventory.cards[k].cardId : k \in DOMAIN gs.inventory.cards})

\* regionUnlocked with > for >=: a goal is met only when it is passed (C17
\* tells this from regionUnlocked)
regionUnlocked_strict(gs, regionId) ==
    LET unlock == allRegionsData[regionId]
        packs == gs.player.packsOpened
        uniques == getUniqueCardCount(gs)
    IN  \/ unlock.type = "packs" /\ packs > unlock.value
        \/ unlock.type = "unique" /\ uniques > unlock.value

\* the test getUnlockedRegions makes of one region
regionUnlocked(gs, regionId) ==
    LET unlock == allRegionsData[regionId]
        packs == gs.player.packsOpened
        uniques == getUniqueCardCount(gs)
    IN  \/ unlock.type = "packs" /\ packs >= unlock.value
        \/ unlock.type = "unique" /\ uniques >= unlock.value

\* getUnlockedRegions: the unlocked region ids, in catalog order
getUnlockedRegions(gs) == SelectSeq(RegionIds, LAMBDA r : regionUnlocked(gs, r))

\* ids[Math.floor(Math.random() * ids.length)]; undefined when ids is empty.
\* pick is Math.random() in units of 1/100000.
PickFrom(ids, pick) ==
    IF Len(ids) = 0 THEN UndefinedId
    ELSE ids[((pick * Len(ids)) \div Percent(100)) + 1]

\* getRandomCardOfRarity without the region gate, as the earlier of the two
\* definitions in script.js has it (C18 tells this from getRandomCardOfRarity)
getRandomCardOfRarity_anyRegion(gs, rarity, pick) ==
    PickFrom(SelectSeq(CardIds, LAMBDA id : allCardsData[id].rarity = rarity), pick)

\* getRandomCardOfRarity, the region-aware definition (the later of the two
\* in script.js, and the one of part_000)
getRandomCardOfRarity(gs, rarity, pick) ==
    LET unlockedRegions == getUnlockedRegions(gs)
        validIds == SelectSeq(CardIds, LAMBDA id :
                        /\ allCardsData[id].rarity = rarity
                        /\ Includes(unlockedRegions, allCardsData[id].region))
        fallback == SelectSeq(CardIds, LAMBDA id :
                        /\ allCardsData[id].rarity = "common"
                        /\ Includes(unlockedRegions, allCardsData[id].region))
    IN  IF Len(validIds) = 0 THEN PickFrom(fallback, pick)
        ELSE PickFrom(validIds, pick)

isCardIdNew_spareOnly(gs, cardId) ==
    ~ \E k \in DOMAIN gs.inventory.cards : /\ gs.inventory.cards[k].cardId = cardId
                                           /\ gs.inventory.cards[k].count > 1

isCardIdNew(gs, cardId) ==
    ~ \E k \in DOMAIN gs.inventory.cards : gs.inventory.cards[k].cardId = cardId

\* getWeightedRandom, isPackRules: RARITY_ORDER.forEach from position k on
RECURSIVE packPool(_, _)
packPool(items, k) ==
    IF k > Len(RARITY_ORDER) THEN <<>>
    ELSE LET rarity == RARITY_ORDER[k]
         IN  IF rarity \in DOMAIN items /\ items[rarity] # 0
             THEN <<[value |-> rarity, weight |-> Percent(items[rarity])]>>
                  \o packPool(items, k + 1)
             ELSE packPool(items, k + 1)

\* walkPool that answers with the first entry when the draw exceeds every
\* cumulative weight (C16 tells this from walkPool)
RECURSIVE walkPool_firstOnFallThrough(_, _, _, _)
walkPool_firstOnFallThrough(pool, k, cumulative, roll) ==
    IF k > Len(pool) THEN pool[1].value
    ELSE LET sum == cumulative + pool[k].weight
         IN  IF roll < sum THEN pool[k].value
             ELSE walkPool_firstOnFallThrough(pool, k + 1, sum, roll)

\* getWeightedRandom: for (const entry of pool), from position k on
RECURSIVE walkPool(_, _, _, _)
walkPool(pool, k, cumulative, roll) ==
    IF k > Len(pool) THEN pool[Len(pool)].value
    ELSE LET sum == cumulative + pool[k].weight
         IN  IF roll < sum THEN pool[k].value
             ELSE walkPool(pool, k + 1, sum, roll)

\* getWeightedRandom of part_000; the weights of the pool are in thousandths
\* of a percent, as the draw is
getWeightedRandom(items, isPackRules, roll) ==
    LET pool == IF isPackRules THEN packPool(items, 1)
                ELSE [k \in DOMAIN items |->
                         [value |-> items[k], weight |-> items[k].chance]]
    IN  walkPool(pool, 1, 0, roll)

\* getRandomRarity of script.js: for (const rarity of RARITY_ORDER), from k on
RECURSIVE rarityLoop(_, _, _, _)
rarityLoop(packRules, k, cumulativeChance, roll) ==
    IF k > Len(RARITY_ORDER) THEN RARITY_ORDER[Len(RARITY_ORDER)]
    ELSE LET rarity == RARITY_ORDER[k]
             chance == IF rarity \in DOMAIN packRules THEN packRules[rarity] ELSE 0
             sum == cumulativeChance + chance
         IN  IF roll < Percent(sum) THEN rarity
             ELSE rarityLoop(packRules, k + 1, sum, roll)

getRandomRarity(packRules, roll) == rarityLoop(packRules, 1, 0, roll)

\* generateFishingReward and generateSiftingReward of script.js: for (const
\* reward of table), from position k on
RECURSIVE rewardLoop(_, _, _, _)
rewardLoop(table, k, cumulativeChance, roll) ==
    IF k > Len(table) THEN table[Len(table)]
    ELSE LET sum == cumulativeChance + table[k].chance
         IN  IF roll < sum THEN table[k]
             ELSE rewardLoop(table, k + 1, sum, roll)

\* getRandomCardOfRegion that keeps the requested region when it is locked
\* (C19 tells this from cardOfRegion)
cardOfRegion_notGated(gs, requested, rarity, pick) ==
    LET matches == SelectSeq(CardIds, LAMBDA id :
                       /\ allCardsData[id].region = requested
                       /\ allCardsData[id].rarity = rarity)
        anyInRegion == SelectSeq(CardIds, LAMBDA id :
                           allCardsData[id].region = requested)
    IN  IF Len(matches) > 0 THEN PickFrom(matches, pick)
        ELSE IF Len(anyInRegion) > 0 THEN PickFrom(anyInRegion, pick)
        ELSE Null

\* getRandomCardOfRegion once the rarity is rolled; the same in both drafts
cardOfRegion(gs, requested, rarity, pick) ==
    LET unlocked == getUnlockedRegions(gs)
        region == IF Includes(unlocked, requested) THEN requested
                  ELSE IF Len(unlocked) > 0 THEN unlocked[1]
                  ELSE "riverbed"
        matches == SelectSeq(CardIds, LAMBDA id :
                       /\ allCardsData[id].region = region
                       /\ allCardsData[id].rarity = rarity)
        anyInRegion == SelectSeq(CardIds, LAMBDA id :
                           allCardsData[id].region = region)
    IN  IF Len(matches) > 0 THEN PickFrom(matches, pick)
        ELSE IF Len(anyInRegion) > 0 THEN PickFrom(anyInRegion, pick)
        ELSE Null

\* getRandomCardOfRegion of part_000
getRandomCardOfRegion(gs, region, roll, pick) ==
    cardOfRegion(gs, region,
                 getWeightedRandom(WILD_RARITY_CHANCE, FALSE, roll).rarity, pick)

\* getRandomCardOfRegion of script.js: for (const rarityInfo of
\* WILD_RARITY_CHANCE), from position k on
RECURSIVE wildLoop(_, _, _)
wildLoop(k, cumulativeChance, roll) ==
    IF k > Len(WILD_RARITY_CHANCE) THEN "common"
    ELSE LET sum == cumulativeChance + WILD_RARITY_CHANCE[k].chance
         IN  IF roll < sum THEN WILD_RARITY_CHANCE[k].rarity
             ELSE wildLoop(k + 1, sum, roll)

\* getRandomCardOfRegion of script.js
getRandomCardOfRegion_script(gs, region, roll, pick) ==
    cardOfRegion(gs, region, wildLoop(1, 0, roll), pick)

\* the score of a selection with every entry scored once, whatever its count
\* (C20 tells this from conversionPoints)
RECURSIVE conversionPoints_flat(_, _)
conversionPoints_flat(selection, k) ==
    IF k > Len(selection) THEN 0
    ELSE CONVERSION_POINTS[allCardsData[selection[k].cardId].rarity]
         + conversionPoints_flat(selection, k + 1)

\* confirmConversion: conversionSelection.forEach(c => pts += ...), from
\* position k on; the same in both drafts
RECURSIVE conversionPoints(_, _)
conversionPoints(selection, k) ==
    IF k > Len(selection) THEN 0
    ELSE CONVERSION_POINTS[allCardsData[selection[k].cardId].rarity]
           * selection[k].count
         + conversionPoints(selection, k + 1)

\* the variant table openPack picks from the stored unique count
artChancesOf(gs) ==
    LET uniques == gs.player.uniquesOwned
        alt1Unlocked == uniques >= UNLOCK_GOALS_ALT_ART_1
        alt2Unlocked == uniques >= UNLOCK_GOALS_ALT_ART_2
    IN  IF alt2Unlocked THEN ART_CHANCES_ALT_2_UNLOCKED
        ELSE IF alt1Unlocked THEN ART_CHANCES_ALT_1_UNLOCKED
        ELSE ART_CHANCES_LOCKED

\* packCard rolling the foil whether or not foils are unlocked (C14 tells this
\* from packCard)
packCard_foilNotGated(gs, rarity, d) ==
    LET cardId == getRandomCardOfRarity(gs, rarity, d.pick)
        isNew == isCardIdNew(gs, cardId)
        foil == IF d.foil < Percent(FOIL_CHANCE) THEN "foil" ELSE "normal"
        artChances == artChancesOf(gs)
        art == IF d.art < Percent(artChances[3]) THEN 2
               ELSE IF d.art < Percent(artChances[2] + artChances[3]) THEN 1
               ELSE 0
    IN  [cardId |-> cardId, art |-> art, foil |-> foil, isNew |-> isNew]

\* one pass of openPack's for loop once the rarity is rolled; d holds the
\* draws of the pass (d.pick the card, d.foil the foil, d.art the art)
packCard(gs, rarity, d) ==
    LET cardId == getRandomCardOfRarity(gs, rarity, d.pick)
        isNew == isCardIdNew(gs, cardId)
        foilUnlocked == gs.player.packsOpened >= UNLOCK_GOALS_FOIL
        foil == IF foilUnlocked /\ d.foil < Percent(FOIL_CHANCE)
                THEN "foil" ELSE "normal"
        artChances == artChancesOf(gs)
        art == IF d.art < Percent(artChances[3]) THEN 2
               ELSE IF d.art < Percent(artChances[2] + artChances[3]) THEN 1
               ELSE 0
    IN  [cardId |-> cardId, art |-> art, foil |-> foil, isNew |-> isNew]

\* the cards one pass of the loop can produce, over all draws
Rolled(d8, gs, packType) ==
    IF packType \notin DOMAIN allPacksData THEN {}
    ELSE {packCard(gs,
                   IF d8 = ScriptJs
                   THEN getRandomRarity(allPacksData[packType], d.rarity)
                   ELSE getWeightedRandom(allPacksData[packType], TRUE, d.rarity),
                   d) : d \in CardDraws}

\* addCardsToInventory with a loop that pushes every card
addLoop_alwaysAppend(inv, newCards, k) ==
    inv \o [j \in 1 .. Len(newCards) - k + 1 |->
               [cardId |-> newCards[j + k - 1].cardId, art |-> newCards[j + k - 1].art,
                foil |-> newCards[j + k - 1].foil, count |-> 1]]

\* addCardsToInventory: newCards.forEach from position k on
RECURSIVE addLoop(_, _, _)
addLoop(inv, newCards, k) ==
    IF k > Len(newCards) THEN inv
    ELSE LET newCard == newCards[k]
             same == {j \in DOMAIN inv : /\ inv[j].cardId = newCard.cardId
                                         /\ inv[j].art = newCard.art
                                         /\ inv[j].foil = newCard.foil}
         IN  IF same # {}
             THEN LET existing == CHOOSE j \in same : \A h \in same : j <= h
                  IN  addLoop([inv EXCEPT ![existing].count = @ + 1], newCards, k + 1)
             ELSE addLoop(Append(inv, [cardId |-> newCard.cardId, art |-> newCard.art,
                                       foil |-> newCard.foil, count |-> 1]),
                          newCards, k + 1)

\* addCardsToInventory: stack by (cardId, art, foil), then recount the uniques
addCardsToInventory_stale(gs, newCards) ==
    [gs EXCEPT !.inventory.cards = addLoop(@, newCards, 1)]

addCardsToInventory(gs, newCards) ==
    LET stacked == [gs EXCEPT !.inventory.cards = addLoop(@, newCards, 1)]
    IN  [stacked EXCEPT !.player.uniquesOwned = getUniqueCardCount(stacked)]

\* what openPack leaves: the state, the stored blob and the reveal grid
Opened(gs, ls, modal, threw) ==
    [state |-> gs, stored |-> ls, modal |-> modal, threw |-> threw]

\* showPackModal: the grid is cleared and filled card by card; reading the
\* definition of a card whose id is undefined is a TypeError
showPackModal(newCards) ==
    LET bad == {k \in DOMAIN newCards : newCards[k].cardId \notin DOMAIN allCardsData}
    IN  IF bad = {} THEN [grid |-> newCards, threw |-> FALSE]
        ELSE LET first == CHOOSE k \in bad : \A h \in bad : k <= h
             IN  [grid |-> SubSeq(newCards, 1, first - 1), threw |-> TRUE]

\* the pack is taken from the inventory
takePack_pair(gs, packType) == [gs EXCEPT !.player.packsInventory[packType] = @ - 2]

takePack(gs, packType) == [gs EXCEPT !.player.packsInventory[packType] = @ - 1]

\* mergePack that does not count the opened pack (C11 tells this from
\* mergePack)
mergePack_uncounted(taken, newCards) ==
    LET added == addCardsToInventory(taken, newCards)
        shown == showPackModal(newCards)
    IN  Opened(added, saveState(added), shown.grid, shown.threw)

\* openPack from the merge of the rolled cards on; the same in both drafts
mergePack(taken, newCards) ==
    LET added == addCardsToInventory(taken, newCards)
        counted == [added EXCEPT !.player.packsOpened = @ + 1]
        shown == showPackModal(newCards)
    IN  Opened(counted, saveState(counted), shown.grid, shown.threw)

\* openPack with the guard packsInventory[packType] < 0: a count of 0 is
\* opened (C10 tells this from openPack)
openPack_offByOne(gs, ls, modal, packType, newCards) ==
    IF gs.player.packsInventory[packType] < 0 THEN Opened(gs, ls, modal, FALSE)
    ELSE LET taken == takePack(gs, packType)
         IN  IF packType \notin DOMAIN allPacksData
             THEN Opened(taken, ls, modal, TRUE)
             ELSE mergePack(taken, newCards)

\* openPack of part_000; newCards are the three cards its loop rolled
openPack(gs, ls, modal, packType, newCards) ==
    IF gs.player.packsInventory[packType] <= 0 THEN Opened(gs, ls, modal, FALSE)
    ELSE LET taken == takePack(gs, packType)
         IN  IF packType \notin DOMAIN allPacksData
             THEN Opened(taken, ls, modal, TRUE)
             ELSE mergePack(taken, newCards)

\* openPack of script.js; newCards are the three cards its loop rolled
openPack_script(gs, ls, modal, packType, newCards) ==
    IF gs.player.packsInventory[packType] <= 0 THEN Opened(gs, ls, modal, FALSE)
    ELSE LET taken == takePack(gs, packType)
             packRules == packType \in DOMAIN allPacksData
         IN  IF ~ packRules
             THEN Opened(taken, ls, modal, FALSE)
             ELSE mergePack(taken, newCards)

\* the first inventory entry with the id, art and foil of card, 0 when there
\* is none: inv.find(c => c.cardId === ... && c.art === ... && c.foil === ...)
findStack(inv, card) ==
    LET same == {j \in DOMAIN inv : /\ inv[j].cardId = card.cardId
                                    /\ inv[j].art = card.art
                                    /\ inv[j].foil = card.foil}
    IN  IF same = {} THEN 0 ELSE CHOOSE j \in same : \A h \in same : j <= h

\* a click that lets the selected count reach max + 1 (C22 tells this from
\* toggled)
toggled_offByOne(selection, card, max) ==
    LET entry == findStack(selection, card)
    IN  IF entry = 0
        THEN Append(selection, [cardId |-> card.cardId, art |-> card.art,
                                foil |-> card.foil, count |-> 1])
        ELSE IF selection[entry].count <= max
        THEN [selection EXCEPT ![entry].count = @ + 1]
        ELSE SelectSeq([selection EXCEPT ![entry].count = 0],
                       LAMBDA c : c.count > 0)

\* the selection after a click that finds the stack selected or not, with
\* max spare copies; the same in both drafts
toggled(selection, card, max) ==
    LET entry == findStack(selection, card)
    IN  IF entry = 0
        THEN Append(selection, [cardId |-> card.cardId, art |-> card.art,
                                foil |-> card.foil, count |-> 1])
        ELSE IF selection[entry].count < max
        THEN [selection EXCEPT ![entry].count = @ + 1]
        ELSE SelectSeq([selection EXCEPT ![entry].count = 0],
                       LAMBDA c : c.count > 0)

\* toggleConvertSelect of part_000, called with a card of the grid
toggleConvertSelect_wholeStack(selection, card) == toggled(selection, card, card.count)

toggleConvertSelect(selection, card) == toggled(selection, card, card.count - 1)

\* toggleCardForConversion of script.js, called with the id, art and foil of
\* a card of the grid
toggleCardForConversion(gs, selection, card) ==
    LET playerCard == findStack(gs.inventory.cards, card)
    IN  IF playerCard = 0 THEN selection
        ELSE IF gs.inventory.cards[playerCard].count - 1 <= 0 THEN selection
        ELSE toggled(selection, card, gs.inventory.cards[playerCard].count - 1)

\* PACK_THRESHOLDS.find(p => pts > p.points): a threshold is met only when it
\* is passed (C21 tells this from findReward)
RECURSIVE findReward_strict(_, _)
findReward_strict(pts, k) ==
    IF k > Len(PACK_THRESHOLDS) THEN NoPack
    ELSE IF pts > PACK_THRESHOLDS[k].points THEN PACK_THRESHOLDS[k]
    ELSE findReward_strict(pts, k + 1)

\* PACK_THRESHOLDS.find(p => pts >= p.points) of part_000 and the loop with
\* break of script.js, from position k on
RECURSIVE findReward(_, _)
findReward(pts, k) ==
    IF k > Len(PACK_THRESHOLDS) THEN NoPack
    ELSE IF pts >= PACK_THRESHOLDS[k].points THEN PACK_THRESHOLDS[k]
    ELSE findReward(pts, k + 1)

\* confirmConversion that takes all copies of a selected stack but one,
\* whatever number was selected (C24 tells this from removeLoop)
RECURSIVE removeLoop_allSpare(_, _, _)
removeLoop_allSpare(inv, selection, k) ==
    IF k > Len(selection) THEN inv
    ELSE LET target == findStack(inv, selection[k])
         IN  IF target = 0 THEN removeLoop_allSpare(inv, selection, k + 1)
             ELSE removeLoop_allSpare([inv EXCEPT ![target].count = 1],
                                      selection, k + 1)

\* confirmConversion: conversionSelection.forEach(sel => ... target.count -=
\* sel.count), from position k on
\* a conversion that takes the selected stacks out of the inventory
removeLoop_splice(inv, selection, k) ==
    SelectSeq(inv, LAMBDA c : findStack(SubSeq(selection, k, Len(selection)), c) = 0)

RECURSIVE removeLoop(_, _, _)
removeLoop(inv, selection, k) ==
    IF k > Len(selection) THEN inv
    ELSE LET target == findStack(inv, selection[k])
         IN  IF target = 0 THEN removeLoop(inv, selection, k + 1)
             ELSE removeLoop([inv EXCEPT ![target].count = @ - selection[k].count],
                             selection, k + 1)

\* what confirmConversion leaves: the state, the stored blob and the selection
Converted(gs, ls, selection) == [state |-> gs, stored |-> ls, selection |-> selection]

\* confirmConversion that converts a selection that meets no threshold too,
\* for no pack (C23 tells this from confirmConversion)
confirmConversion_unguarded(d8, gs, ls, selection) ==
    LET reward == findReward(conversionPoints(selection, 1), 1)
        removed == [gs EXCEPT !.inventory.cards = removeLoop(@, selection, 1)]
        granted == IF d8 = ScriptJs
                   THEN addPackToInventory_script(removed, ls, reward.name, 1)
                   ELSE addPackToInventory(removed, ls, reward.name, 1)
    IN  Converted(granted.state, saveState(granted.state), <<>>)

\* confirmConversion; the drafts differ in addPackToInventory only
confirmConversion(d8, gs, ls, selection) ==
    LET reward == findReward(conversionPoints(selection, 1), 1)
        removed == [gs EXCEPT !.inventory.cards = removeLoop(@, selection, 1)]
        granted == IF d8 = ScriptJs
                   THEN addPackToInventory_script(removed, ls, reward.name, 1)
                   ELSE addPackToInventory(removed, ls, reward.name, 1)
    IN  IF reward = NoPack THEN Converted(gs, ls, selection)
        ELSE Converted(granted.state, saveState(granted.state), <<>>)

\* the most one-shot timers pending at once
MaxTimers == 3

\* the time that passes in one step of the clock of the minigame, in ms
Step == 500

\* Math.random() * 5000 + 3000, in ms
WaitTimes == {3000, 5500, 8000}

\* the draws of a fishing reward: a basic pack, a card, nothing
FishDraws == {10000, 50000, 99999}

\* clearTimeout(handle): the timer with this id, if it is still pending
clearTimeout(tm, handle) == {t \in tm : t.id # handle}

\* the id setTimeout returns: one that no pending timer and no kept handle has
freshId(tm, handle) ==
    CHOOSE i \in 1 .. MaxTimers + 1 :
        /\ i # handle
        /\ \A t \in tm : t.id # i
        /\ \A j \in 1 .. i - 1 : j = handle \/ \E t \in tm : t.id = j

\* setTimeout(fn, delay)
setTimeout(tm, handle, fn, delay) ==
    tm \cup {[id |-> freshId(tm, handle), fn |-> fn, left |-> delay]}

\* what a step of the fishing game leaves: minigameState with the button, and
\* the pending timers
Fishing(mg, tm) == [game |-> mg, timers |-> tm]

\* startFishing: the old tracked timer is cleared, the bite timer is tracked
startFishing(mg, tm, wait) ==
    LET cleared == clearTimeout(tm, mg.fishing.timeout)
        id == freshId(cleared, mg.fishing.timeout)
    IN  Fishing([mg EXCEPT !.fishing.state = "waiting", !.fishing.timeout = id],
                setTimeout(cleared, mg.fishing.timeout, "showFishBite", wait))

\* failFishing: the tracked timer is cleared; the delayed reset is not tracked
failFishing(mg, tm) ==
    LET cleared == clearTimeout(tm, mg.fishing.timeout)
    IN  Fishing([mg EXCEPT !.fishing.state = "idle", !.fishing.disabled = FALSE],
                setTimeout(cleared, mg.fishing.timeout, "resetFishingGame", 2000))

\* showFishBite: the get-away timer is tracked
showFishBite(mg, tm) ==
    LET cleared == clearTimeout(tm, mg.fishing.timeout)
        id == freshId(cleared, mg.fishing.timeout)
    IN  Fishing([mg EXCEPT !.fishing.state = "bite", !.fishing.disabled = FALSE,
                           !.fishing.timeout = id],
                setTimeout(cleared, mg.fishing.timeout, "fishGotAway", 2000))

\* reelInFish without the reward: the button is disabled, the delayed reset
\* is not tracked
reelInFish(mg, tm) ==
    LET cleared == clearTimeout(tm, mg.fishing.timeout)
    IN  Fishing([mg EXCEPT !.fishing.state = "reeling", !.fishing.disabled = TRUE],
                setTimeout(cleared, mg.fishing.timeout, "resetFishingGame", 2500))

\* resetFishingGame, and fishGotAway, which does the same: no timer is cleared
resetFishingGame(mg, tm) ==
    Fishing([mg EXCEPT !.fishing.state = "idle", !.fishing.disabled = FALSE], tm)

\* handleFishingClick that reels in as soon as the line is out (C27 tells
\* this from handleFishingClick)
handleFishingClick_eager(state) ==
    CASE state = "idle" -> "startFishing"
      [] state \in {"waiting", "bite"} -> "reelInFish"
      [] OTHER -> "none"

\* handleFishingClick: the function the switch calls, "none" when no case
\* matches
handleFishingClick(state) ==
    CASE state = "idle" -> "startFishing"
      [] state = "waiting" -> "failFishing"
      [] state = "bite" -> "reelInFish"
      [] OTHER -> "none"

\* the card a minigame adds: { cardId, variant: "normal" } has no art and no
\* foil
wildCard(cardId) ==
    [cardId |-> cardId, art |-> Undefined, foil |-> UndefinedId, isNew |-> FALSE]

\* endSiftingGame(true) and reelInFish from the reward on: the pack or the
\* card is added, and the state is saved unless the reward is nothing
grantReward(d8, gs, ls, reward, roll, pick) ==
    LET cardId == IF d8 = ScriptJs
                  THEN getRandomCardOfRegion_script(gs, reward.region, roll, pick)
                  ELSE getRandomCardOfRegion(gs, reward.region, roll, pick)
        granted ==
            IF reward.type = "pack"
            THEN (IF d8 = ScriptJs
                  THEN addPackToInventory_script(gs, ls, reward.packType, 1)
                  ELSE addPackToInventory(gs, ls, reward.packType, 1)).state
            ELSE IF reward.type = "card" /\ cardId # Null
            THEN addCardsToInventory(gs, <<wildCard(cardId)>>)
            ELSE gs
    IN  IF reward.type # "none" THEN Result(granted, saveState(granted))
        ELSE Result(gs, ls)

\* the slots a handler moved to complete
Completed(before, after) ==
    {i \in Slots : before.expeditions[i].status # "complete"
                   /\ after.expeditions[i].status = "complete"}

\* the slots whose reward a pass at time t rolls
Due(gs, t) == {i \in Slots : gs.expeditions[i].status = "out"
                             /\ gs.expeditions[i].endTs <= t}

TotalPacks(gs) ==
    LET inv == gs.player.packsInventory
    IN  inv["basic"] + inv["explorer"] + inv["advanced"] + inv["deluxe"]
        + inv["collector"]

(***************************************************************************)
(* The page.                                                               *)
(***************************************************************************)
Call(op, slot, pack, done) == [op |-> op, slot |-> slot, pack |-> pack, done |-> done]

\* the blob a player leaves who opened one basic pack of a new game and drew
\* rock-001 twice and rock-002 once
ReturningSave ==
    mergePack(takePack(NewGame, "basic"),
              <<[cardId |-> "rock-001", art |-> 0, foil |-> "normal", isNew |-> TRUE],
                [cardId |-> "rock-001", art |-> 0, foil |-> "normal", isNew |-> TRUE],
                [cardId |-> "rock-002", art |-> 0, foil |-> "normal", isNew |-> TRUE]>>).stored

\* no query was made yet
NoQuery == [fn |-> "none"]

\* no timer: the value null of a timer handle
NoTimer == 0

\* the minigame hub as the page shows it first: the menu, the fishing button
\* enabled
NoGame ==
    [fishing |-> [state |-> "idle", timeout |-> NoTimer, disabled |-> FALSE],
     sifting |-> [timer |-> NoTimer, secondsLeft |-> 0, findList |-> {},
                  rocksInSieve |-> {}, clickable |-> {}, area |-> "start"],
     stage |-> "menu"]

\* a stack of the inventory
Stack(cardId, count) == [cardId |-> cardId, art |-> 0, foil |-> "normal", count |-> count]

\* the blob of a player who holds packs basic packs and has opened opened
\* packs, which gave the cards
Save(opened, packs, cards) ==
    saveState([player |-> [packsOpened |-> opened,
                           uniquesOwned |-> Len(cards),
                           packsInventory |-> [p \in PackTypes |->
                                                  IF p = "basic" THEN packs ELSE 0]],
               inventory |-> [cards |-> cards],
               expeditions |-> defaultExpeditions,
               museum |-> defaultMuseum])

\* demo catalog: 49 packs opened, one short of the foil goal; the 147 cards
\* were 100 rock-001 and 47 rock-002
Veteran49 == Save(49, 2, <<Stack("rock-001", 100), Stack("rock-002", 47)>>)

\* full catalog: 33 packs opened gave the first 99 cards, one unique card
\* short of the first alt-art goal
Collector99 == Save(33, 1, [k \in 1 .. 99 |-> Stack(FullCardIds[k], 1)])

\* full catalog: 34 packs opened gave the first 100 cards, the first alt-art
\* goal, and one of them, a special card, three times
Collector100 ==
    Save(34, 1, [k \in 1 .. 100 |-> Stack(FullCardIds[k], IF k = 6 THEN 3 ELSE 1)])

\* full catalog: 67 packs opened gave the first 200 cards, the second
\* alt-art goal, and one of them twice
Collector200 ==
    Save(67, 1, [k \in 1 .. 200 |-> Stack(FullCardIds[k], IF k = 1 THEN 2 ELSE 1)])

\* demo catalog: 10 packs opened, and all but 6 of their cards converted
Trader == Save(10, 1, <<Stack("rock-001", 2), Stack("rock-003", 4)>>)

\* packsOpened of the blobs a behaviour can start from
SavedOpens == {0, 10, 33, 34, 49, 67}

\* the blobs the browser can hold when the page is opened
Saves ==
    CASE catalog = DemoCatalog -> {<<>>, Veteran49}
      [] catalog = FullCatalog -> {<<>>, Collector99, Collector100, Collector200}
      [] OTHER -> {<<>>}

\* the page is opened, for the first time or by a player with a save
InitNew ==
    /\ catalog \in Catalogs
    /\ query = NoQuery
    /\ conversionSelection = <<>>
    /\ minigameState = NoGame
    /\ timers = {}
    /\ draft \in Drafts
    /\ now = 0
    /\ pc = "loadMasterData"
    /\ gameState = Unloaded
    /\ localStorage \in Saves
    /\ gameTickInterval = FALSE
    /\ uiDrawn = FALSE
    /\ packModal = <<>>
    /\ lastCall = Call("none", Undefined, "none", {})

\* the page is opened on the demo catalog by a player with cards to convert
\* the top-level sections of a save
Sections == {"player", "inventory", "expeditions", "museum"}

\* a blob without one of its sections
Without(blob, section) == [f \in DOMAIN blob \ {section} |-> blob[f]]

\* saves of older versions: a complete one, one without each section, one
\* whose player has no packsInventory, and no save at all
OldSaves ==
    {Trader, <<>>}
        \cup {<<Without(Trader[1], section)>> : section \in Sections}
        \cup {<<[Trader[1] EXCEPT !.player = Without(@, "packsInventory")]>>}

\* the page is opened on the demo catalog with an old save
InitLoad ==
    /\ catalog = DemoCatalog
    /\ query = NoQuery
    /\ conversionSelection = <<>>
    /\ minigameState = NoGame
    /\ timers = {}
    /\ draft \in Drafts
    /\ now = 0
    /\ pc = "loadMasterData"
    /\ gameState = Unloaded
    /\ localStorage \in OldSaves
    /\ gameTickInterval = FALSE
    /\ uiDrawn = FALSE
    /\ packModal = <<>>
    /\ lastCall = Call("none", Undefined, "none", {})

InitConv ==
    /\ catalog = DemoCatalog
    /\ query = NoQuery
    /\ conversionSelection = <<>>
    /\ minigameState = NoGame
    /\ timers = {}
    /\ draft \in Drafts
    /\ now = 0
    /\ pc = "loadMasterData"
    /\ gameState = Unloaded
    /\ localStorage \in {<<Trader[1]>>}
    /\ gameTickInterval = FALSE
    /\ uiDrawn = FALSE
    /\ packModal = <<>>
    /\ lastCall = Call("none", Undefined, "none", {})

\* the page is opened, for the first time or by a returning player
Init ==
    /\ catalog = DemoCatalog
    /\ query = NoQuery
    /\ conversionSelection = <<>>
    /\ minigameState = NoGame
    /\ timers = {}
    /\ draft \in Drafts
    /\ now = 0
    /\ pc = "loadMasterData"
    /\ gameState = Unloaded
    /\ localStorage \in {<<>>, ReturningSave}
    /\ gameTickInterval = FALSE
    /\ uiDrawn = FALSE
    /\ packModal = <<>>
    /\ lastCall = Call("none", Undefined, "none", {})

\* Date.now() moves on while the page waits in the event loop
AdvanceClock ==
    /\ pc \in {"loadMasterData", "ready", "failed"}
    /\ \E t \in Times : t > now /\ now' = t
    /\ lastCall' = Call("clock", Undefined, "none", {})
    /\ UNCHANGED <<conversionSelection, minigameState, timers, catalog, query, draft, pc, gameState, localStorage, gameTickInterval, uiDrawn,
                   packModal>>

\* initGame: await loadMasterData() rejects, the game does not start
InitGameFails ==
    /\ pc = "loadMasterData"
    /\ pc' = "failed"
    /\ lastCall' = Call("initGame", Undefined, "none", {})
    /\ UNCHANGED <<conversionSelection, minigameState, timers, catalog, query, draft, now, gameState, localStorage, gameTickInterval, uiDrawn,
                   packModal>>

\* initGame: await loadMasterData() resolves, then loadState()
InitGameLoadState ==
    /\ pc = "loadMasterData"
    /\ LET r == loadState(draft, localStorage)
       IN  /\ gameState' = r.state
           /\ localStorage' = r.stored
           /\ pc' = IF r.threw THEN "failed" ELSE "checkAllExpeditions"
    /\ lastCall' = Call("initGame", Undefined, "none", {})
    /\ UNCHANGED <<conversionSelection, minigameState, timers, catalog, query, draft, now, gameTickInterval, uiDrawn, packModal>>

\* initGame: checkAllExpeditions()
InitGameCheckAllExpeditions ==
    /\ pc = "checkAllExpeditions"
    /\ \E rolls \in [Due(gameState, now) -> Rolls] :
         LET r == checkAllExpeditions(gameState, localStorage, now, rolls)
         IN  /\ gameState' = r.state
             /\ localStorage' = r.stored
             /\ lastCall' = Call("initGame", Undefined, "none",
                                 Completed(gameState, r.state))
    /\ pc' = "updateUI"
    /\ UNCHANGED <<conversionSelection, minigameState, timers, catalog, query, draft, now, gameTickInterval, uiDrawn, packModal>>

\* initGame: the init* calls and updateUI(); updateArchiveUI reads
\* gameState.inventory.cards, a TypeError when there is no inventory
InitGameUpdateUI ==
    /\ pc = "updateUI"
    /\ uiDrawn' = ("inventory" \in DOMAIN gameState)
    /\ pc' = IF "inventory" \in DOMAIN gameState THEN "setInterval" ELSE "failed"
    /\ UNCHANGED <<conversionSelection, minigameState, timers, catalog, query, draft, now, gameState, localStorage, gameTickInterval, packModal,
                   lastCall>>

\* initGame: gameTickInterval = setInterval(onGameTick, 1000)
InitGameSetInterval ==
    /\ pc = "setInterval"
    /\ gameTickInterval' = TRUE
    /\ pc' = "ready"
    /\ UNCHANGED <<conversionSelection, minigameState, timers, catalog, query, draft, now, gameState, localStorage, uiDrawn, packModal,
                   lastCall>>

\* the player closes the page and opens it again: only localStorage survives
Reload ==
    /\ pc \in {"ready", "failed"}
    /\ pc' = "loadMasterData"
    /\ gameState' = Unloaded
    /\ gameTickInterval' = FALSE
    /\ uiDrawn' = FALSE
    /\ packModal' = <<>>
    /\ conversionSelection' = <<>>
    /\ minigameState' = NoGame
    /\ timers' = {}
    /\ lastCall' = Call("reload", Undefined, "none", {})
    /\ UNCHANGED <<catalog, query, draft, now, localStorage>>

\* the interval timer fires
OnGameTick ==
    /\ pc = "ready"
    /\ gameTickInterval
    /\ \E rolls \in [Due(gameState, now) -> Rolls] :
         LET r == IF draft = ScriptJs
                  THEN onGameTick_script(gameState, localStorage, now, rolls)
                  ELSE onGameTick(gameState, localStorage, now, rolls)
         IN  /\ gameState' = r.state
             /\ localStorage' = r.stored
             /\ lastCall' = Call("onGameTick", Undefined, "none",
                                 Completed(gameState, r.state))
    /\ UNCHANGED <<conversionSelection, minigameState, timers, catalog, query, draft, now, pc, gameTickInterval, uiDrawn, packModal>>

StartExpedition(index) ==
    /\ pc = "ready"
    /\ now + EXPEDITION_DATA[index].durationMs >= 0
    /\ LET r == startExpedition(gameState, localStorage, index, now)
       IN  gameState' = r.state /\ localStorage' = r.stored
    /\ lastCall' = Call("startExpedition", index, "none", {})
    /\ UNCHANGED <<conversionSelection, minigameState, timers, catalog, query, draft, now, pc, gameTickInterval, uiDrawn, packModal>>

ClaimExpedition(index) ==
    /\ pc = "ready"
    /\ TotalPacks(gameState) < MaxTotalPacks
    /\ LET r == IF draft = ScriptJs
                THEN claimExpedition_script(gameState, localStorage, index)
                ELSE claimExpedition(gameState, localStorage, index)
       IN  gameState' = r.state /\ localStorage' = r.stored
    /\ lastCall' = Call("claimExpedition", index, "none", {})
    /\ UNCHANGED <<conversionSelection, minigameState, timers, catalog, query, draft, now, pc, gameTickInterval, uiDrawn, packModal>>

\* a click on a pack in the opening area
OpenPack(packType) ==
    /\ pc = "ready"
    /\ \E s \in SavedOpens : /\ s <= gameState.player.packsOpened
                            /\ gameState.player.packsOpened < s + MaxOpens
    /\ LET rolled == IF gameState.player.packsInventory[packType] <= 0 THEN {}
                     ELSE Rolled(draft, takePack(gameState, packType), packType)
       IN  \E newCards \in [1 .. 3 -> IF rolled = {} THEN {NoCard} ELSE rolled] :
             LET r == IF draft = ScriptJs
                      THEN openPack_script(gameState, localStorage, packModal,
                                           packType, newCards)
                      ELSE openPack(gameState, localStorage, packModal,
                                    packType, newCards)
             IN  /\ gameState' = r.state
                 /\ localStorage' = r.stored
                 /\ packModal' = r.modal
    /\ lastCall' = Call("openPack", Undefined, packType, {})
    /\ UNCHANGED <<conversionSelection, minigameState, timers, catalog, query, draft, now, pc, gameTickInterval, uiDrawn>>

\* a rarity is rolled from a pack's rules, as openPack does for each card
GetRandomRarity(packRules, roll) ==
    /\ pc = "ready"
    /\ query' = [fn |-> "getRandomRarity", table |-> packRules, roll |-> roll,
                 value |-> IF draft = ScriptJs THEN getRandomRarity(packRules, roll)
                           ELSE getWeightedRandom(packRules, TRUE, roll)]
    /\ UNCHANGED <<conversionSelection, minigameState, timers, catalog, draft, now, pc, gameState, localStorage,
                   gameTickInterval, uiDrawn, packModal, lastCall>>

\* a card of a rarity is resolved, as openPack does for each card
GetRandomCardOfRarity(rarity, pick) ==
    /\ pc = "ready"
    /\ query' = [fn |-> "getRandomCardOfRarity", rarity |-> rarity, pick |-> pick,
                 value |-> getRandomCardOfRarity(gameState, rarity, pick)]
    /\ UNCHANGED <<conversionSelection, minigameState, timers, catalog, draft, now, pc, gameState, localStorage,
                   gameTickInterval, uiDrawn, packModal, lastCall>>

\* a wild card of a region is resolved, as the minigames do for a card reward;
\* rarity is the rarity the function rolls on its way
GetRandomCardOfRegion(region, roll, pick) ==
    /\ pc = "ready"
    /\ query' = [fn |-> "getRandomCardOfRegion", region |-> region, roll |-> roll,
                 pick |-> pick,
                 rarity |-> IF draft = ScriptJs THEN wildLoop(1, 0, roll)
                            ELSE getWeightedRandom(WILD_RARITY_CHANCE, FALSE,
                                                   roll).rarity,
                 value |-> IF draft = ScriptJs
                           THEN getRandomCardOfRegion_script(gameState, region,
                                                             roll, pick)
                           ELSE getRandomCardOfRegion(gameState, region, roll, pick)]
    /\ UNCHANGED <<conversionSelection, minigameState, timers, catalog, draft, now, pc, gameState, localStorage,
                   gameTickInterval, uiDrawn, packModal, lastCall>>

\* the entries the clicks on the converter grid can put into the selection: a
\* stack of the inventory with some of its spare copies
Selectable(gs) ==
    LET cards == gs.inventory.cards
    IN  {[cardId |-> cards[x[1]].cardId, art |-> cards[x[1]].art,
          foil |-> cards[x[1]].foil, count |-> x[2]] :
            x \in {y \in (DOMAIN cards) \X SelectCounts :
                      y[2] <= cards[y[1]].count - 1}}

\* the selections the clicks can build: no stack is selected twice
Selections(gs) ==
    {sel \in UNION {[1 .. n -> Selectable(gs)] : n \in 0 .. MaxSelected} :
        \A j, k \in DOMAIN sel :
            j # k => \/ sel[j].cardId # sel[k].cardId
                     \/ sel[j].art # sel[k].art
                     \/ sel[j].foil # sel[k].foil}

\* the converter shows the points of the selection
UpdateConversionSummary(selection) ==
    /\ pc = "ready"
    /\ query' = [fn |-> "updateConversionSummary", selection |-> selection,
                 value |-> conversionPoints(selection, 1),
                 reward |-> findReward(conversionPoints(selection, 1), 1).name]
    /\ UNCHANGED <<conversionSelection, minigameState, timers, catalog, draft, now, pc, gameState, localStorage,
                   gameTickInterval, uiDrawn, packModal, lastCall>>

\* the reward of a point total is looked up, as updateConversionSummary and
\* confirmConversion do
FindReward(pts) ==
    /\ pc = "ready"
    /\ query' = [fn |-> "findReward", pts |-> pts, value |-> findReward(pts, 1)]
    /\ UNCHANGED <<conversionSelection, minigameState, timers, catalog, draft, now, pc,
                   gameState, localStorage, gameTickInterval, uiDrawn, packModal,
                   lastCall>>

\* a minigame rolls its reward: generateFishingReward, generateSiftingReward
\* of script.js, getWeightedRandom(table) of part_000
GenerateReward(table, roll) ==
    /\ pc = "ready"
    /\ query' = [fn |-> "generateReward", table |-> table, roll |-> roll,
                 value |-> IF draft = ScriptJs THEN rewardLoop(table, 1, 0, roll)
                           ELSE getWeightedRandom(table, FALSE, roll)]
    /\ UNCHANGED <<conversionSelection, minigameState, timers, catalog, draft, now, pc, gameState, localStorage,
                   gameTickInterval, uiDrawn, packModal, lastCall>>

\* the sum of the counts of the inventory entries at the positions lo to hi,
\* by halves
RECURSIVE CountBetween(_, _, _)
CountBetween(cards, lo, hi) ==
    IF lo > hi THEN 0
    ELSE IF lo = hi THEN cards[lo].count
    ELSE LET mid == (lo + hi) \div 2
         IN  CountBetween(cards, lo, mid) + CountBetween(cards, mid + 1, hi)

\* the sum of the counts of the inventory entries
CountAll(cards) == CountBetween(cards, 1, Len(cards))

\* the number of minigame cards held
WildHeld(gs) == CountAll(SelectSeq(gs.inventory.cards, LAMBDA c : c.art = Undefined))

\* a card of the converter grid, which shows the stacks with duplicates, is
\* clicked
ToggleConvertSelect(k) ==
    /\ pc = "ready"
    /\ k \in DOMAIN gameState.inventory.cards
    /\ gameState.inventory.cards[k].count > 1
    /\ conversionSelection' =
         IF draft = ScriptJs
         THEN toggleCardForConversion(gameState, conversionSelection,
                                      gameState.inventory.cards[k])
         ELSE toggleConvertSelect(conversionSelection, gameState.inventory.cards[k])
    /\ lastCall' = Call("toggleConvertSelect", Undefined, "none", {})
    /\ UNCHANGED <<minigameState, timers, catalog, query, draft, now, pc, gameState,
                   localStorage, gameTickInterval, uiDrawn, packModal>>

\* confirmConversion
ConfirmConversion ==
    /\ pc = "ready"
    /\ TotalPacks(gameState) < MaxHeld
    /\ LET r == confirmConversion(draft, gameState, localStorage, conversionSelection)
       IN  /\ gameState' = r.state
           /\ localStorage' = r.stored
           /\ conversionSelection' = r.selection
    /\ lastCall' = Call("confirmConversion", Undefined,
                        findReward(conversionPoints(conversionSelection, 1), 1).name,
                        {})
    /\ UNCHANGED <<minigameState, timers, catalog, query, draft, now, pc,
                   gameTickInterval, uiDrawn, packModal>>

\* a won sifting round as the inventory sees it: the reward branch of
\* endSiftingGame(true); the countdown, the clicks and the timers of a round
\* are the actions of the sifting game
EndSiftingGame(roll, wildRoll, pick) ==
    /\ pc = "ready"
    /\ WildHeld(gameState) < MaxWild
    /\ LET reward == IF draft = ScriptJs THEN rewardLoop(SIFTING_REWARDS, 1, 0, roll)
                     ELSE getWeightedRandom(SIFTING_REWARDS, FALSE, roll)
           r == grantReward(draft, gameState, localStorage, reward, wildRoll, pick)
       IN  /\ gameState' = r.state
           /\ localStorage' = r.stored
    /\ lastCall' = Call("endSiftingGame", Undefined, "none", {})
    /\ UNCHANGED <<conversionSelection, minigameState, timers, catalog, query, draft, now,
                   pc, gameTickInterval, uiDrawn, packModal>>

Next ==
    \/ AdvanceClock
    \/ InitGameFails
    \/ InitGameLoadState
    \/ InitGameCheckAllExpeditions
    \/ InitGameUpdateUI
    \/ InitGameSetInterval
    \/ Reload
    \/ OnGameTick
    \/ \E index \in Slots : StartExpedition(index)
    \/ \E index \in Slots : ClaimExpedition(index)

\* the page and the expeditions
Spec == Init /\ [][Next]_vars

NextPack ==
    \/ InitGameFails
    \/ InitGameLoadState
    \/ InitGameCheckAllExpeditions
    \/ InitGameUpdateUI
    \/ InitGameSetInterval
    \/ \E packType \in Clicked : OpenPack(packType)

\* the page and the pack opener
SpecPack == InitNew /\ [][NextPack]_vars

NextConv ==
    \/ InitGameFails
    \/ InitGameLoadState
    \/ InitGameCheckAllExpeditions
    \/ InitGameUpdateUI
    \/ InitGameSetInterval
    \/ /\ gameState.player.packsOpened < Trader[1].player.packsOpened + MaxTraded
       /\ OpenPack("basic")
    \/ \E roll \in SiftDraws : EndSiftingGame(roll, 99999, 0)
    \/ \E k \in DOMAIN gameState.inventory.cards : ToggleConvertSelect(k)
    \/ ConfirmConversion

\* the page, the pack opener, the sifting reward and the converter
SpecConv == InitConv /\ [][NextConv]_vars

\* the positions of the converter grid, which is drawn when the page is ready
Grid == IF pc = "ready" THEN DOMAIN gameState.inventory.cards ELSE {}

\* the fishing button is clicked; a disabled button delivers no click
FishingButtonClick(wait, roll, wildRoll) ==
    /\ pc = "ready"
    /\ minigameState.stage = "fishing"
    /\ Cardinality(timers) < MaxTimers
    /\ TotalPacks(gameState) < MaxHeld
    /\ WildHeld(gameState) < MaxWild
    /\ LET called == IF minigameState.fishing.disabled THEN "none"
                     ELSE handleFishingClick(minigameState.fishing.state)
           f == CASE called = "startFishing" -> startFishing(minigameState, timers, wait)
                  [] called = "failFishing" -> failFishing(minigameState, timers)
                  [] called = "reelInFish" -> reelInFish(minigameState, timers)
                  [] OTHER -> Fishing(minigameState, timers)
           reward == IF draft = ScriptJs THEN rewardLoop(FISHING_REWARDS, 1, 0, roll)
                     ELSE getWeightedRandom(FISHING_REWARDS, FALSE, roll)
           r == IF called = "reelInFish"
                THEN grantReward(draft, gameState, localStorage, reward, wildRoll, 0)
                ELSE Result(gameState, localStorage)
       IN  /\ minigameState' = f.game
           /\ timers' = f.timers
           /\ gameState' = r.state
           /\ localStorage' = r.stored
           /\ lastCall' = Call(IF called = "none" THEN "handleFishingClick" ELSE called,
                               Undefined,
                               IF called = "reelInFish" THEN reward.type ELSE "none", {})
    /\ UNCHANGED <<conversionSelection, catalog, query, draft, now, pc,
                   gameTickInterval, uiDrawn, packModal>>

\* a one-shot timer is due and its callback runs
TimerFires ==
    /\ pc = "ready"
    /\ \E t \in timers :
         /\ t.left = 0
         /\ t.fn \notin {"onSiftingTick", "showSiftingStart"}
         /\ LET f == IF t.fn = "showFishBite"
                     THEN showFishBite(minigameState, timers \ {t})
                     ELSE resetFishingGame(minigameState, timers \ {t})
            IN  /\ minigameState' = f.game
                /\ timers' = f.timers
         /\ lastCall' = Call(t.fn, Undefined, "none", {})
    /\ UNCHANGED <<conversionSelection, catalog, query, draft, now, pc, gameState,
                   localStorage, gameTickInterval, uiDrawn, packModal>>

\* time passes while timers are pending and none is due
Elapse ==
    /\ pc = "ready"
    /\ timers # {}
    /\ \A t \in timers : t.left > 0
    /\ timers' = {[t EXCEPT !.left = IF @ > Step THEN @ - Step ELSE 0] : t \in timers}
    /\ lastCall' = Call("clock", Undefined, "none", {})
    /\ UNCHANGED <<conversionSelection, minigameState, catalog, query, draft, now, pc,
                   gameState, localStorage, gameTickInterval, uiDrawn, packModal>>

\* showMinigameStage(gameId): the menu resets the fishing game, a game is
\* only shown
ShowMinigameStage(gameId) ==
    /\ pc = "ready"
    /\ LET f == IF gameId = "menu" THEN resetFishingGame(minigameState, timers)
                ELSE Fishing(minigameState, timers)
       IN  /\ minigameState' = [f.game EXCEPT !.stage = gameId]
           /\ timers' = f.timers
    /\ lastCall' = Call("showMinigameStage", Undefined, "none", {})
    /\ UNCHANGED <<conversionSelection, catalog, query, draft, now, pc, gameState,
                   localStorage, gameTickInterval, uiDrawn, packModal>>

NextFish ==
    \/ InitGameFails
    \/ InitGameLoadState
    \/ InitGameCheckAllExpeditions
    \/ InitGameUpdateUI
    \/ InitGameSetInterval
    \/ \E wait \in WaitTimes, roll \in FishDraws :
           FishingButtonClick(wait, roll, 99999)
    \/ TimerFires
    \/ Elapse
    \/ \E gameId \in {"menu", "fishing"} : ShowMinigameStage(gameId)

\* the page and the fishing game, on the save of InitConv
SpecFish == InitConv /\ [][NextFish]_vars

(***************************************************************************)
(* The sifting game.  A rock is its position in MINIGAME_ROCK_LIST; the   *)
(* listed rocks are taken to be cards of the catalog, as drawSiftingUI     *)
(* needs.  The shake of a wrong rock is display only and left out.         *)
(***************************************************************************)
\* the rocks of MINIGAME_ROCK_LIST
ROCK_LIST_LENGTH == 12

MINIGAME_ROCK_LIST == 1 .. ROCK_LIST_LENGTH

\* siftingSecondsLeft = 20
SIFTING_SECONDS == 20

\* setInterval(onSiftingTick, 1000)
SIFTING_TICK == 1000

\* setTimeout(..., 3000) of endSiftingGame
SIFTING_RESET == 3000

\* generateSiftingRocks(3): the three rocks the shuffle puts first
TargetDraws == {{1, 2, 3}, {2, 5, 12}}

\* generateSiftingRocks(7, targets): seven of the other rocks
Decoys(targets) ==
    LET pool == MINIGAME_ROCK_LIST \ targets
    IN  {r \in pool : Cardinality({q \in pool : q < r}) < 7}

Sifting(mg, tm, gs, ls) == [game |-> mg, timers |-> tm, state |-> gs, stored |-> ls]

startSiftingGame(mg, tm, targets) ==
    LET cleared == IF mg.sifting.timer # NoTimer
                   THEN clearTimeout(tm, mg.sifting.timer) ELSE tm
        id == freshId(cleared, mg.sifting.timer)
        rocks == targets \cup Decoys(targets)
    IN  Fishing([mg EXCEPT !.sifting = [timer |-> id,
                                        secondsLeft |-> SIFTING_SECONDS,
                                        findList |-> targets,
                                        rocksInSieve |-> rocks,
                                        clickable |-> rocks,
                                        area |-> "game"]],
                setTimeout(cleared, mg.sifting.timer, "onSiftingTick", SIFTING_TICK))

endSiftingGame(d8, mg, tm, gs, ls, win, roll, wildRoll, pick) ==
    LET cleared == clearTimeout(tm, mg.sifting.timer)
        reward == IF d8 = ScriptJs THEN rewardLoop(SIFTING_REWARDS, 1, 0, roll)
                  ELSE getWeightedRandom(SIFTING_REWARDS, FALSE, roll)
        r == IF win THEN grantReward(d8, gs, ls, reward, wildRoll, pick)
             ELSE Result(gs, ls)
    IN  Sifting(mg, setTimeout(cleared, mg.sifting.timer, "showSiftingStart",
                               SIFTING_RESET),
                r.state, r.stored)

onSiftingTick(d8, mg, tm, gs, ls) ==
    LET ticked == [mg EXCEPT !.sifting.secondsLeft = @ - 1]
    IN  IF ticked.sifting.secondsLeft <= 0
        THEN endSiftingGame(d8, ticked, tm, gs, ls, FALSE, 0, 0, 0)
        ELSE Sifting(ticked, tm, gs, ls)

onSieveRockClick(d8, mg, tm, gs, ls, id, roll, wildRoll, pick) ==
    IF id \in mg.sifting.findList
    THEN LET found == [mg EXCEPT !.sifting.findList = @ \ {id},
                                 !.sifting.clickable = @ \ {id}]
         IN  IF found.sifting.findList = {}
             THEN endSiftingGame(d8, found, tm, gs, ls, TRUE, roll, wildRoll, pick)
             ELSE Sifting(found, tm, gs, ls)
    ELSE Sifting(mg, tm, gs, ls)

\* the start button of the sifting page
StartSiftingGame(targets) ==
    /\ pc = "ready"
    /\ minigameState.stage = "sifting"
    /\ minigameState.sifting.area = "start"
    /\ Cardinality(timers) < MaxTimers
    /\ LET f == startSiftingGame(minigameState, timers, targets)
       IN  /\ minigameState' = f.game
           /\ timers' = f.timers
    /\ lastCall' = Call("startSiftingGame", Undefined, "none", {})
    /\ UNCHANGED <<conversionSelection, catalog, query, draft, now, pc, gameState,
                   localStorage, gameTickInterval, uiDrawn, packModal>>

\* a click on a rock of the sieve that still takes clicks, while the game
\* area is shown
SieveRockClick(id, roll, wildRoll) ==
    /\ pc = "ready"
    /\ minigameState.stage = "sifting"
    /\ minigameState.sifting.area = "game"
    /\ id \in minigameState.sifting.clickable
    /\ Cardinality(timers) < MaxTimers
    /\ TotalPacks(gameState) < MaxHeld
    /\ WildHeld(gameState) < MaxWild
    /\ LET f == onSieveRockClick(draft, minigameState, timers, gameState,
                                 localStorage, id, roll, wildRoll, 0)
           won == minigameState.sifting.findList = {id}
       IN  /\ minigameState' = f.game
           /\ timers' = f.timers
           /\ gameState' = f.state
           /\ localStorage' = f.stored
           /\ lastCall' = Call(IF won THEN "endSiftingGame" ELSE "onSieveRockClick",
                               Undefined, "none", {})
    /\ UNCHANGED <<conversionSelection, catalog, query, draft, now, pc,
                   gameTickInterval, uiDrawn, packModal>>

\* a timer of the sifting game is due: the interval calls onSiftingTick and
\* stays armed unless the call cleared it, the timeout of endSiftingGame
\* shows the start area again
SiftingTimerFires ==
    /\ pc = "ready"
    /\ \E t \in timers :
         /\ t.left = 0
         /\ t.fn \in {"onSiftingTick", "showSiftingStart"}
         /\ Cardinality(timers) <= MaxTimers
         /\ LET armed == (timers \ {t}) \cup {[t EXCEPT !.left = SIFTING_TICK]}
                f == IF t.fn = "onSiftingTick"
                     THEN onSiftingTick(draft, minigameState, armed, gameState,
                                        localStorage)
                     ELSE Sifting([minigameState EXCEPT !.sifting.area = "start"],
                                  timers \ {t}, gameState, localStorage)
            IN  /\ minigameState' = f.game
                /\ timers' = f.timers
                /\ gameState' = f.state
                /\ localStorage' = f.stored
         /\ lastCall' = Call(t.fn, Undefined, "none", {})
    /\ UNCHANGED <<conversionSelection, catalog, query, draft, now, pc,
                   gameTickInterval, uiDrawn, packModal>>

NextSift ==
    \/ InitGameFails
    \/ InitGameLoadState
    \/ InitGameCheckAllExpeditions
    \/ InitGameUpdateUI
    \/ InitGameSetInterval
    \/ \E targets \in TargetDraws : StartSiftingGame(targets)
    \/ \E id \in MINIGAME_ROCK_LIST, roll \in SiftDraws : SieveRockClick(id, roll, 99999)
    \/ SiftingTimerFires
    \/ Elapse
    \/ \E gameId \in {"menu", "sifting"} : ShowMinigameStage(gameId)

SpecSift == InitConv /\ [][NextSift]_vars

NextLoad ==
    \/ InitGameFails
    \/ InitGameLoadState
    \/ InitGameCheckAllExpeditions
    \/ InitGameUpdateUI
    \/ InitGameSetInterval
    \/ Reload
    \/ \E k \in Grid : ToggleConvertSelect(k)
    \/ ConfirmConversion

\* the page and the converter on old saves
SpecLoad == InitLoad /\ [][NextLoad]_vars

NextFn ==
    \/ InitGameFails
    \/ InitGameLoadState
    \/ InitGameCheckAllExpeditions
    \/ InitGameUpdateUI
    \/ InitGameSetInterval
    \/ \E packRules \in PackTables, roll \in TableDraws :
           GetRandomRarity(packRules, roll)
    \/ \E table \in {FISHING_REWARDS, SIFTING_REWARDS}, roll \in TableDraws :
           GenerateReward(table, roll)
    \/ \E k \in DOMAIN RARITY_ORDER, pick \in Picks :
           GetRandomCardOfRarity(RARITY_ORDER[k], pick)
    \/ \E region \in Requested, roll \in WildDraws, pick \in Picks :
           GetRandomCardOfRegion(region, roll, pick)
    \/ \E selection \in Selections(gameState) :
           UpdateConversionSummary(selection)
    \/ \E pts \in Points : FindReward(pts)

\* the page and the functions that read the game without changing it
SpecFn == InitNew /\ [][NextFn]_vars

(***************************************************************************)
(* Properties.                                                             *)
(*                                                                         *)
(* A step is the call of a handler when it starts in a page that is ready  *)
(* and lastCall' names the handler: every action enabled in a ready page   *)
(* sets lastCall.  The load-time check is the step taken at                *)
(* pc = "checkAllExpeditions".                                             *)
(***************************************************************************)
Calls(op) == pc = "ready" /\ lastCall'.op = op

LoadCheck == pc = "checkAllExpeditions" /\ pc' = "updateUI"

\* the pack grant the documentation gives slot i for the draw r
ExpectedReward(i, r) ==
    [type |-> "pack",
     packType |-> IF r < Percent(EXPEDITION_DATA[i].bonusChance)
                  THEN EXPEDITION_DATA[i].bonusPack
                  ELSE EXPEDITION_DATA[i].basePack,
     count |-> 1]

SlotRewards(i) == {ExpectedReward(i, r) : r \in Rolls}

\* C1: across startExpedition, onGameTick, checkAllExpeditions and
\* claimExpedition calls a slot changes status only from empty to out (by
\* start of that slot), from out to complete (by tick or load check, when now
\* >= endTs) and from complete to empty (by claim of that slot).
C1_Step ==
    (Calls("startExpedition") \/ Calls("onGameTick") \/ Calls("claimExpedition")
     \/ LoadCheck)
    => \A i \in Slots :
         LET before == gameState.expeditions[i]
             after == gameState'.expeditions[i]
         IN  before.status # after.status
             => \/ /\ before.status = "empty" /\ after.status = "out"
                   /\ Calls("startExpedition") /\ lastCall'.slot = i
                \/ /\ before.status = "out" /\ after.status = "complete"
                   /\ (Calls("onGameTick") \/ LoadCheck)
                   /\ now >= before.endTs
                \/ /\ before.status = "complete" /\ after.status = "empty"
                   /\ Calls("claimExpedition") /\ lastCall'.slot = i

C1_StatusLifecycle == [][C1_Step]_vars

\* C2: startExpedition(i) on a slot that is out or complete is rejected: the
\* slots, the inventory and the stored blob are left as they were.
C2_Step ==
    (Calls("startExpedition")
     /\ gameState.expeditions[lastCall'.slot].status \in {"out", "complete"})
    => gameState' = gameState /\ localStorage' = localStorage

C2_StartRejected == [][C2_Step]_vars

\* C3: onGameTick(now) leaves an out slot out with its endTs when now < endTs,
\* and when now >= endTs makes it complete with a resolved pack reward of that
\* slot attached.
C3_Step ==
    Calls("onGameTick")
    => \A i \in Slots :
         LET before == gameState.expeditions[i]
             after == gameState'.expeditions[i]
         IN  before.status = "out"
             => IF now < before.endTs
                THEN after = before
                ELSE /\ after.status = "complete"
                     /\ after.rewards \in SlotRewards(i)

C3_TickRule == [][C3_Step]_vars

\* C3 on the refactored draft alone
C3_TickRule_Part000 == [][draft = Part000 => C3_Step]_vars

\* the slots of a pass's result that hold a reward
Rewarded(exps) == {i \in Slots : exps[i].rewards # NoRewards}

\* what onGameTick of the running draft makes of the state
TickOf(gs, ls, t, rolls) ==
    IF draft = ScriptJs THEN onGameTick_script(gs, ls, t, rolls)
    ELSE onGameTick(gs, ls, t, rolls)

\* C4: for every configuration of the slots and every time, also far past
\* endTs, checkAllExpeditions(now) and one onGameTick(now) give the same slot
\* statuses and attach a reward of the slot's own base/bonus configuration to
\* the same slots.
C4_Agree(t) ==
    \A rolls \in [Due(gameState, t) -> Rolls] :
      LET ticked == TickOf(gameState, localStorage, t, rolls).state.expeditions
          checked == checkAllExpeditions(gameState, localStorage, t,
                                         rolls).state.expeditions
      IN  /\ \A i \in Slots : ticked[i].status = checked[i].status
          /\ Rewarded(ticked) = Rewarded(checked)
          /\ \A i \in Due(gameState, t) :
               ticked[i].rewards \in SlotRewards(i)
               /\ checked[i].rewards \in SlotRewards(i)

C4_TickEqualsCheck == pc = "ready" => \A t \in Times : C4_Agree(t)

\* C4 on the refactored draft alone
C4_TickEqualsCheck_Part000 ==
    (pc = "ready" /\ draft = Part000) => \A t \in Times : C4_Agree(t)

\* C5: claimExpedition(i) on a slot that is empty or out changes nothing: no
\* slot, no pack count, no inventory entry (and nothing stored or shown).
C5_Step ==
    (Calls("claimExpedition")
     /\ gameState.expeditions[lastCall'.slot].status # "complete")
    => /\ gameState' = gameState
       /\ localStorage' = localStorage
       /\ packModal' = packModal

C5_ClaimNotCompleteNoOp == [][C5_Step]_vars

\* a claim was made of a slot that is out, by a player who owns cards
C5_Witness ==
    /\ pc = "ready"
    /\ lastCall.op = "claimExpedition"
    /\ gameState.expeditions[lastCall.slot].status = "out"
    /\ Len(gameState.inventory.cards) > 0

\* C6: claimExpedition(i) on a complete slot adds exactly 1 to the pack count
\* of the attached reward's packType, makes slot i empty and leaves the other
\* slots, the other pack counts, packsOpened and the cards as they were.
C6_Step ==
    (Calls("claimExpedition")
     /\ gameState.expeditions[lastCall'.slot].status = "complete")
    => LET i == lastCall'.slot
           packType == gameState.expeditions[i].rewards.packType
       IN  /\ packType \in PackTypes
           /\ gameState' = [gameState EXCEPT
                               !.player.packsInventory[packType] = @ + 1,
                               !.expeditions[i] = EmptySlot]

C6_ClaimGrantsOnePack == [][C6_Step]_vars

\* C6 on the refactored draft alone
C6_ClaimGrantsOnePack_Part000 == [][draft = Part000 => C6_Step]_vars

\* C7: the reward attached to slot i when it completes is a pack grant of
\* quantity 1, of EXPEDITION_DATA[i].bonusPack when the draw r < bonusChance
\* and of EXPEDITION_DATA[i].basePack otherwise; never of another slot.
C7_Step ==
    (Calls("onGameTick") \/ LoadCheck)
    => \A i \in Slots :
         (gameState.expeditions[i].status # "complete"
          /\ gameState'.expeditions[i].status = "complete")
         => /\ gameState'.expeditions[i].rewards \in SlotRewards(i)
            /\ \A r \in Rolls : generateExpeditionRewards(i, r) = ExpectedReward(i, r)

C7_RewardFromSlotConfig == [][C7_Step]_vars

\* C7 on the refactored draft alone
C7_RewardFromSlotConfig_Part000 == [][draft = Part000 => C7_Step]_vars

\* C8: in initGame the load-time catch-up has run, after loadState, before the
\* page is drawn and before the tick timer is set, so when the game becomes
\* interactive no slot is out with endTs <= the load time.  (The clock does
\* not move between the catch-up and the end of initGame, and lastCall still
\* names initGame when nothing has happened since.)
C8_CaughtUpWhenInteractive ==
    /\ (uiDrawn \/ gameTickInterval) => pc \in {"setInterval", "ready"}
    /\ pc = "checkAllExpeditions" => ~ uiDrawn /\ ~ gameTickInterval
    /\ (pc \in {"updateUI", "setInterval", "ready"} /\ lastCall.op = "initGame")
       => \A i \in Slots :
            ~ (gameState.expeditions[i].status = "out"
               /\ gameState.expeditions[i].endTs <= now)

\* the game became interactive after a catch-up that completed a slot whose
\* endTs is the load time itself
C8_Witness ==
    /\ pc = "ready"
    /\ gameTickInterval
    /\ lastCall.op = "initGame"
    /\ \E i \in lastCall.done :
         /\ gameState.expeditions[i].status = "complete"
         /\ gameState.expeditions[i].endTs = now

\* C9: an expedition once started is never cancelled: no call moves an out
\* slot back to empty or changes its endTs; it stays out as it is until it
\* becomes complete with a reward attached.
C9_Step ==
    (Calls("startExpedition") \/ Calls("onGameTick") \/ Calls("claimExpedition")
     \/ LoadCheck)
    => \A i \in Slots :
         LET before == gameState.expeditions[i]
             after == gameState'.expeditions[i]
         IN  before.status = "out"
             => \/ after = before
                \/ /\ after.status = "complete"
                   /\ after.endTs = before.endTs
                   /\ after.rewards # NoRewards

C9_NeverCancelled == [][C9_Step]_vars

\* C10: openPack(packType) for a known pack type whose count is 0 changes
\* nothing: pack counts, packsOpened, uniquesOwned and the cards stay, nothing
\* is stored and no cards are shown.
C10_Step ==
    (Calls("openPack") /\ gameState.player.packsInventory[lastCall'.pack] = 0)
    => /\ gameState' = gameState
       /\ localStorage' = localStorage
       /\ packModal' = packModal

C10_OpenEmptyPackNoOp == [][C10_Step]_vars

\* openPack was called for explorer packs, of which the player, who has
\* opened a pack before, holds none
C10_Witness ==
    /\ pc = "ready"
    /\ lastCall.op = "openPack"
    /\ lastCall.pack = "explorer"
    /\ gameState.player.packsInventory["explorer"] = 0
    /\ gameState.player.packsOpened > 0
    /\ Len(packModal) = 3

\* every rarity of the pack's table has a candidate, at first or by fallback
PoolNonEmpty(gs, packType) ==
    \A rarity \in DOMAIN allPacksData[packType] :
      getRandomCardOfRarity(gs, rarity, 0) # UndefinedId

\* C11: a successful openPack(packType) (count > 0, a rarity table, candidates
\* for every roll) shows exactly 3 cards, takes exactly 1 from that pack type's
\* count and from no other, adds exactly 1 to packsOpened and exactly 3 to the
\* sum of the inventory counts.
C11_Step ==
    (/\ Calls("openPack")
     /\ gameState.player.packsInventory[lastCall'.pack] > 0
     /\ lastCall'.pack \in DOMAIN allPacksData
     /\ PoolNonEmpty(gameState, lastCall'.pack))
    => /\ Len(packModal') = 3
       /\ \A k \in 1 .. 3 : packModal'[k].cardId \in DOMAIN allCardsData
       /\ gameState'.player.packsInventory =
            [gameState.player.packsInventory EXCEPT ![lastCall'.pack] = @ - 1]
       /\ gameState'.player.packsOpened = gameState.player.packsOpened + 1
       /\ CountAll(gameState'.inventory.cards)
            = CountAll(gameState.inventory.cards) + 3

C11_OpenPackEffect == [][C11_Step]_vars

\* a new game's first basic pack was opened and two of its cards stacked
C11_Witness ==
    /\ pc = "ready"
    /\ lastCall.op = "openPack"
    /\ lastCall.pack = "basic"
    /\ gameState.player.packsOpened = 1
    /\ gameState.player.packsInventory["basic"] = 4
    /\ Len(packModal) = 3
    /\ \E k \in DOMAIN gameState.inventory.cards :
         gameState.inventory.cards[k].count = 2

\* C12: openPack(packType) for a pack type without a rarity table in the pack
\* catalog aborts with no state mutation: no pack count, packsOpened or
\* inventory entry changes.
C12_Step ==
    (Calls("openPack") /\ lastCall'.pack \notin DOMAIN allPacksData)
    => gameState' = gameState

C12_NoTableNoMutation == [][C12_Step]_vars

\* C13: when the card resolver finds no candidate for a rolled rarity and no
\* common candidate either, openPack aborts with no mutation; so a call of
\* openPack either changes nothing or reveals three catalog cards, and at no
\* time is a pack consumed for an inventory entry with an undefined cardId.
C13_Step ==
    (/\ Calls("openPack")
     /\ gameState.player.packsInventory[lastCall'.pack] > 0
     /\ lastCall'.pack \in DOMAIN allPacksData)
    => \/ gameState' = gameState
       \/ /\ Len(packModal') = 3
          /\ \A k \in 1 .. 3 : packModal'[k].cardId \in DOMAIN allCardsData
          /\ \A k \in DOMAIN gameState'.inventory.cards :
               gameState'.inventory.cards[k].cardId \in DOMAIN allCardsData

C13_NoCandidateNoMutation == [][C13_Step]_vars

\* C14: a card openPack produces is foil only if packsOpened >= 50 held when
\* the pack was opened, has art 1 only if uniquesOwned >= 100 held then, and
\* art 2 only if uniquesOwned >= 200 held then, whatever the draws.
C14_Step ==
    (Calls("openPack")
     /\ gameState'.player.packsOpened # gameState.player.packsOpened)
    => \A k \in DOMAIN packModal' :
         /\ packModal'[k].foil = "foil"
            => gameState.player.packsOpened >= UNLOCK_GOALS_FOIL
         /\ packModal'[k].art = 1
            => gameState.player.uniquesOwned >= UNLOCK_GOALS_ALT_ART_1
         /\ packModal'[k].art = 2
            => gameState.player.uniquesOwned >= UNLOCK_GOALS_ALT_ART_2
         /\ packModal'[k].foil \in {"normal", "foil"}
         /\ packModal'[k].art \in {0, 1, 2}

C14_VariantsGated == [][C14_Step]_vars

\* a pack was opened past all goals and gave a foil card, a card of art 1
\* and a card of art 2
C14_Witness ==
    /\ pc = "ready"
    /\ lastCall.op = "openPack"
    /\ gameState.player.packsOpened > UNLOCK_GOALS_FOIL
    /\ gameState.player.uniquesOwned >= UNLOCK_GOALS_ALT_ART_2
    /\ Len(packModal) = 3
    /\ \E k \in 1 .. 3 : packModal[k].foil = "foil"
    /\ \E k \in 1 .. 3 : packModal[k].art = 1
    /\ \E k \in 1 .. 3 : packModal[k].art = 2

\* a pack opened one short of each goal: the foil goal and the first alt-art
\* goal are met by this very pack, and its cards are normal all the same
C14_BelowGoals ==
    /\ pc = "ready"
    /\ lastCall.op = "openPack"
    /\ gameState.player.packsOpened = UNLOCK_GOALS_FOIL
       \/ gameState.player.uniquesOwned = UNLOCK_GOALS_ALT_ART_1
    /\ Len(packModal) = 3

\* the page holds a loaded game
Loaded == pc \in {"checkAllExpeditions", "updateUI", "setInterval", "ready"}

\* the cardIds the inventory holds
OwnedIds == {gameState.inventory.cards[k].cardId : k \in DOMAIN gameState.inventory.cards}

\* C17: getUnlockedRegions returns exactly the regions whose rule is
\* {packs, v} with packsOpened >= v or {unique, v} with at least v distinct
\* cardIds in the inventory, computed from the state as it is; so a region
\* with the rule {packs, 0} is in the result in every reachable state.
C17_UnlockedRegions ==
    Loaded
    => LET unlocked == getUnlockedRegions(gameState)
       IN  /\ {unlocked[k] : k \in DOMAIN unlocked}
                = {r \in DOMAIN allRegionsData :
                     \/ /\ allRegionsData[r].type = "packs"
                        /\ gameState.player.packsOpened >= allRegionsData[r].value
                     \/ /\ allRegionsData[r].type = "unique"
                        /\ Cardinality(OwnedIds) >= allRegionsData[r].value}
           /\ \A j, k \in DOMAIN unlocked : unlocked[j] = unlocked[k] => j = k
           /\ \A r \in DOMAIN allRegionsData :
                allRegionsData[r] = [type |-> "packs", value |-> 0]
                => Includes(unlocked, r)

\* the pack just opened gave the second distinct card, which unlocks the
\* desert
C17_Witness ==
    /\ pc = "ready"
    /\ lastCall.op = "openPack"
    /\ catalog = DemoCatalog
    /\ gameState.player.packsOpened = 1
    /\ Cardinality(OwnedIds) = 2
    /\ getUnlockedRegions(gameState) = <<"riverbed", "desert">>

\* a pack's rules as the list of its entries, rarest listed tier first
PackEntries(packRules) ==
    LET listed == SelectSeq(RARITY_ORDER, LAMBDA r : r \in DOMAIN packRules)
    IN  [k \in DOMAIN listed |->
            [value |-> listed[k], weight |-> Percent(packRules[listed[k]])]]

\* a loot table as the list of its entries
ListEntries(table) ==
    [k \in DOMAIN table |-> [value |-> table[k], weight |-> table[k].chance]]

\* the weight of the first k entries
RECURSIVE Cumulative(_, _)
Cumulative(entries, k) ==
    IF k = 0 THEN 0 ELSE entries[k].weight + Cumulative(entries, k - 1)

\* the first entry whose cumulative weight exceeds r, the last entry when
\* there is none
FirstExceeding(entries, r) ==
    LET over == {k \in DOMAIN entries : Cumulative(entries, k) > r}
    IN  IF over = {} THEN entries[Len(entries)].value
        ELSE entries[CHOOSE k \in over : \A h \in over : k <= h].value

\* C15: for every weighted table and every draw the selector returns the first
\* entry in list order (rarest tier first for a pack's rules) whose cumulative
\* weight exceeds the draw, and the last listed entry of the table when no
\* cumulative weight exceeds it; the result is an entry of the table.
C15_FirstExceedingElseLast ==
    /\ query.fn = "getRandomRarity" =>
           /\ query.value = FirstExceeding(PackEntries(query.table), query.roll)
           /\ query.value \in DOMAIN query.table
    /\ query.fn = "generateReward" =>
           /\ query.value = FirstExceeding(ListEntries(query.table), query.roll)
           /\ Includes(query.table, query.value)
    /\ query.fn = "getRandomCardOfRegion" =>
           query.rarity = FirstExceeding(ListEntries(WILD_RARITY_CHANCE),
                                         query.roll).rarity

UnlockedOfRarity(rarity) ==
    {id \in DOMAIN allCardsData :
        /\ allCardsData[id].rarity = rarity
        /\ Includes(getUnlockedRegions(gameState), allCardsData[id].region)}

\* C18: getRandomCardOfRarity(rarity) returns a card of the requested rarity
\* from an unlocked region whenever there is one; only when there is none
\* does it return a common card from an unlocked region; it never returns a
\* card from a locked region.  (With no common card in an unlocked region
\* either, the result is undefined, which is no card: C13.)
C18_RarityFromUnlockedRegion ==
    query.fn = "getRandomCardOfRarity" =>
        LET wanted == UnlockedOfRarity(query.rarity)
            commons == UnlockedOfRarity("common")
        IN  /\ wanted # {} => query.value \in wanted
            /\ wanted = {} /\ commons # {} => query.value \in commons
            /\ wanted = {} /\ commons = {} => query.value = UndefinedId
            /\ query.value # UndefinedId =>
                   Includes(getUnlockedRegions(gameState),
                            allCardsData[query.value].region)

\* a rare card is asked for while the only rare card is in a locked region:
\* the common card of the unlocked region is returned
C18_Witness ==
    /\ catalog = DemoCatalog
    /\ query.fn = "getRandomCardOfRarity"
    /\ query.rarity = "rare"
    /\ ~ Includes(getUnlockedRegions(gameState), "desert")
    /\ query.value = "rock-001"

\* the region getRandomCardOfRegion has to use: the requested one if it is
\* unlocked, the first unlocked region if not
EffectiveRegion ==
    LET unlocked == getUnlockedRegions(gameState)
    IN  IF Includes(unlocked, query.region) THEN query.region ELSE unlocked[1]

\* the cards of a region
CardsOfRegion(region) ==
    {id \in DOMAIN allCardsData : allCardsData[id].region = region}

C19_NullWitness ==
    /\ catalog = NoCommonsCatalog
    /\ query.fn = "getRandomCardOfRegion"
    /\ query.region = "cave"
    /\ query.value = Null

\* the points of one card of a rarity
PointValue(rarity) ==
    CASE rarity = "special" -> 0
      [] rarity = "common" -> 1
      [] rarity = "uncommon" -> 3
      [] rarity = "rare" -> 10
      [] rarity = "mythic" -> 30
      [] rarity = "legendary" -> 100

\* the copies of a rarity in the first k entries of a selection
RECURSIVE SelectedOf(_, _, _)
SelectedOf(selection, rarity, k) ==
    IF k = 0 THEN 0
    ELSE (IF allCardsData[selection[k].cardId].rarity = rarity
          THEN selection[k].count ELSE 0)
         + SelectedOf(selection, rarity, k - 1)

\* the sum over the entries of a selection of the points of their copies
Score(selection) ==
    LET n(rarity) == PointValue(rarity) * SelectedOf(selection, rarity, Len(selection))
    IN  n("special") + n("common") + n("uncommon") + n("rare") + n("mythic")
        + n("legendary")

\* a selection with twice as many copies of every entry
Doubled(selection) ==
    [k \in DOMAIN selection |-> [selection[k] EXCEPT !.count = 2 * @]]

\* C20: the conversion score of a selection is the sum over its entries of the
\* points of the card's rarity times the selected count, with special 0,
\* common 1, uncommon 3, rare 10, mythic 30 and legendary 100; doubling every
\* selected count doubles the score, and a selection of special cards only
\* scores 0.
C20_ScoreIsLinearSum ==
    query.fn = "updateConversionSummary" =>
        /\ query.value = Score(query.selection)
        /\ conversionPoints(Doubled(query.selection), 1) = 2 * query.value
        /\ (\A k \in DOMAIN query.selection :
               allCardsData[query.selection[k].cardId].rarity = "special")
           => query.value = 0

\* ten commons and twenty uncommons are selected: 70 points
C20_Witness ==
    /\ query.fn = "updateConversionSummary"
    /\ Len(query.selection) = 2
    /\ query.selection[1].cardId = "rock-001" /\ query.selection[1].count = 10
    /\ query.selection[2].cardId = "rock-002" /\ query.selection[2].count = 20
    /\ query.value = 70

\* two copies of a special card are selected: no points
C20_SpecialWitness ==
    /\ query.fn = "updateConversionSummary"
    /\ Len(query.selection) = 1
    /\ allCardsData[query.selection[1].cardId].rarity = "special"
    /\ query.selection[1].count = 2
    /\ query.value = 0

\* the pack whose threshold is the highest one that p reaches
Highest(p) ==
    LET met == {k \in DOMAIN PACK_THRESHOLDS : PACK_THRESHOLDS[k].points <= p}
    IN  IF met = {} THEN NoPack
        ELSE PACK_THRESHOLDS[CHOOSE k \in met :
                 \A h \in met : PACK_THRESHOLDS[h].points <= PACK_THRESHOLDS[k].points]

\* the pack type confirmConversion grants for a selection, "none" when it
\* grants nothing
Granted(selection) ==
    LET after == confirmConversion(draft, gameState, localStorage, selection).state
        more == {t \in PackTypes : after.player.packsInventory[t]
                                     > gameState.player.packsInventory[t]}
    IN  IF more = {} THEN "none" ELSE CHOOSE t \in more : TRUE

\* C21: for every point total p the conversion reward is the pack with the
\* highest threshold <= p among collector 1000, deluxe 250, advanced 100,
\* explorer 30 and basic 10, and none when p < 10; the reward's threshold does
\* not decrease when p grows; and updateConversionSummary and
\* confirmConversion resolve the same reward for the same selection.
C21_HighestThresholdReached ==
    /\ query.fn = "findReward" =>
           /\ query.value = Highest(query.pts)
           /\ query.pts < 10 => query.value = NoPack
           /\ \A q \in Points :
                  q <= query.pts => findReward(q, 1).points <= query.value.points
    /\ query.fn = "updateConversionSummary" =>
           /\ query.reward = Highest(query.value).name
           /\ query.reward = Granted(query.selection)

\* 100 points are worth an advanced pack
C21_Witness ==
    /\ query.fn = "updateConversionSummary"
    /\ query.value = 100
    /\ query.reward = "advanced"
    /\ Granted(query.selection) = "advanced"

\* the number of copies of the inventory entry at position k that are selected
TakenFrom(k) ==
    LET card == gameState.inventory.cards[k]
        same == {j \in DOMAIN conversionSelection :
                    /\ conversionSelection[j].cardId = card.cardId
                    /\ conversionSelection[j].art = card.art
                    /\ conversionSelection[j].foil = card.foil}
    IN  IF same = {} THEN 0 ELSE conversionSelection[CHOOSE j \in same : TRUE].count

\* the points of the selection
SelectedPoints == Score(conversionSelection)

\* C22: in every state reached by any interleaving of pack opening, minigame
\* card rewards, selection toggles and confirmConversion, every inventory
\* entry has count >= 1; confirmConversion never changes an entry whose count
\* is 1.
C22_EveryEntryKept ==
    [][/\ \A k \in DOMAIN gameState'.inventory.cards :
              gameState'.inventory.cards[k].count >= 1
       /\ Calls("confirmConversion") =>
              \A k \in DOMAIN gameState.inventory.cards :
                  gameState.inventory.cards[k].count = 1 =>
                      gameState'.inventory.cards[k] = gameState.inventory.cards[k]]_vars

\* a conversion has taken every spare copy of one stack, next to a stack of
\* a single card, after a pack was opened and a minigame card was won
C22_Witness ==
    /\ lastCall.op = "confirmConversion"
    /\ lastCall.pack # "none"
    /\ gameState.player.packsOpened > Trader[1].player.packsOpened
    /\ WildHeld(gameState) > 0
    /\ \E k \in DOMAIN gameState.inventory.cards :
           /\ gameState.inventory.cards[k].count = 1
           /\ gameState.inventory.cards[k].cardId = "rock-003"

\* C23: confirmConversion with a selection that meets no threshold, the
\* empty selection included, changes neither the inventory, nor the packs,
\* nor the stored blob, nor the selection.
C23_NoRewardNoChange ==
    [][Calls("confirmConversion") /\ SelectedPoints < 10
           => UNCHANGED <<gameState, localStorage, conversionSelection>>]_vars

\* confirmConversion has run on a selection of one common card
C23_Witness ==
    /\ lastCall.op = "confirmConversion"
    /\ lastCall.pack = "none"
    /\ conversionSelection # <<>>
    /\ SelectedPoints = 1

\* C24: confirmConversion with a selection that meets a threshold takes from
\* each selected entry its selected count, leaves the other entries as they
\* were, grants one pack of the resolved type and no other, and empties the
\* selection.
C24_ConversionEffect ==
    [][Calls("confirmConversion") /\ SelectedPoints >= 10
           => /\ Len(gameState'.inventory.cards) = Len(gameState.inventory.cards)
              /\ \A k \in DOMAIN gameState.inventory.cards :
                     gameState'.inventory.cards[k] =
                         [gameState.inventory.cards[k]
                              EXCEPT !.count = @ - TakenFrom(k)]
              /\ gameState'.player.packsInventory =
                     [gameState.player.packsInventory
                          EXCEPT ![Highest(SelectedPoints).name] = @ + 1]
              /\ conversionSelection' = <<>>]_vars

\* a conversion of two of the four copies of a stack, with another stack
\* untouched, has granted a basic pack
C24_Witness ==
    /\ lastCall.op = "confirmConversion"
    /\ lastCall.pack = "basic"
    /\ conversionSelection = <<>>
    /\ gameState.player.packsInventory["basic"]
           = Trader[1].player.packsInventory["basic"] + 1
    /\ \E k \in DOMAIN gameState.inventory.cards :
           /\ gameState.inventory.cards[k].cardId = "rock-003"
           /\ gameState.inventory.cards[k].count = 2
    /\ \E k \in DOMAIN gameState.inventory.cards :
           /\ gameState.inventory.cards[k].cardId = "rock-001"
           /\ gameState.inventory.cards[k].count = 2

\* the card id has no entry in the inventory
NeverOwned(cardId) ==
    \A j \in DOMAIN gameState.inventory.cards :
        gameState.inventory.cards[j].cardId # cardId

\* C29: within one opened pack, when the same never-before-owned card id is
\* drawn more than once, exactly one of the copies is flagged isNew.
C29_OneNewPerCardId ==
    [][Calls("openPack") /\ gameState'.player.packsOpened > gameState.player.packsOpened
           => \A k \in DOMAIN packModal' :
                  NeverOwned(packModal'[k].cardId) =>
                      Cardinality({j \in DOMAIN packModal' :
                                      /\ packModal'[j].cardId = packModal'[k].cardId
                                      /\ packModal'[j].isNew}) = 1]_vars

\* C30: each card of an opened pack is flagged isNew exactly when no
\* inventory entry with its card id existed before the pack was merged, so
\* two copies of a new card in one pack are both flagged.
C30_NewAgainstStateBeforeMerge ==
    [][Calls("openPack") /\ gameState'.player.packsOpened > gameState.player.packsOpened
           => \A k \in DOMAIN packModal' :
                  packModal'[k].isNew <=> NeverOwned(packModal'[k].cardId)]_vars

\* a pack has shown two copies of one card, both flagged new, next to a card
\* that is not new
C30_Witness ==
    /\ lastCall.op = "openPack"
    /\ Len(packModal) = 3
    /\ \E k, j \in DOMAIN packModal :
           /\ k < j
           /\ packModal[k].cardId = packModal[j].cardId
           /\ packModal[k].isNew
           /\ packModal[j].isNew
    /\ \E k \in DOMAIN packModal : ~ packModal[k].isNew

\* the blob with the default of every section it lacks
Backfilled(blob) ==
    blob @@ [player |-> NewGame.player, inventory |-> [cards |-> <<>>],
             expeditions |-> defaultExpeditions, museum |-> defaultMuseum]

\* initGame calls loadState on a stored blob
LoadsBlob ==
    /\ pc = "loadMasterData"
    /\ gameState' # gameState
    /\ Len(localStorage) > 0

\* C26: loadState applied to a saved blob that lacks one top-level section
\* (player, inventory, expeditions or museum) gives that section its default,
\* completes without error and saves at once; a blob that lacks no section
\* is loaded unchanged.
C26_MissingSectionBackfilled ==
    [][LoadsBlob
           /\ Cardinality(Sections \ DOMAIN localStorage[1]) <= 1
           /\ ("player" \in DOMAIN localStorage[1]
                   => "packsInventory" \in DOMAIN localStorage[1].player)
           => /\ pc' = "checkAllExpeditions"
              /\ gameState' = Backfilled(localStorage[1])
              /\ IF Sections \subseteq DOMAIN localStorage[1]
                 THEN localStorage' = localStorage
                 ELSE localStorage' = saveState(gameState')]_vars

\* the operations that change what is persisted
CoreOps ==
    {"openPack", "startExpedition", "onGameTick", "claimExpedition",
     "endSiftingGame", "reelInFish", "confirmConversion"}

\* C25: whenever openPack, startExpedition, the expedition check of
\* onGameTick and of the load, claimExpedition, a fishing or sifting reward
\* grant or confirmConversion returns, on its normal path or on an early exit
\* or failure, the stored blob equals the gameState in memory.
C25_StoredEqualsMemory ==
    [][(\/ pc = "ready" /\ lastCall'.op \in CoreOps
        \/ pc = "checkAllExpeditions")
           => localStorage' = saveState(gameState')]_vars

\* the state of the fishing game
FishingState == minigameState.fishing.state

\* the step is a click on the fishing button
Clicks ==
    /\ pc = "ready"
    /\ lastCall'.op \in {"startFishing", "failFishing", "reelInFish",
                         "handleFishingClick"}

\* C27: in the fishing game a reward is rolled only by a click while the
\* state is bite, and at most once per bite (the roll leaves bite, and bite
\* is entered only by showFishBite); a click during waiting returns to idle
\* with no roll; an un-clicked bite returns to idle when its window of 2000 ms
\* ends, with no roll; clicks during reeling do nothing; and after a reel the
\* state returns to idle when the cooldown of 2500 ms ends.
C27_FishingStateMachine ==
    [][/\ pc = "ready" /\ (gameState' # gameState \/ lastCall'.op = "reelInFish")
            => /\ Clicks
               /\ FishingState = "bite"
               /\ minigameState'.fishing.state = "reeling"
       /\ minigameState'.fishing.state = "bite" /\ FishingState # "bite"
            => lastCall'.op = "showFishBite"
       /\ Clicks /\ FishingState = "waiting"
            => /\ minigameState'.fishing.state = "idle"
               /\ UNCHANGED <<gameState, localStorage>>
       /\ minigameState'.fishing.state = "bite"
            => \E t \in timers' : t.fn = "fishGotAway" /\ t.left <= 2000
       /\ pc = "ready" /\ lastCall'.op = "fishGotAway"
            => /\ minigameState'.fishing.state = "idle"
               /\ UNCHANGED <<gameState, localStorage>>
       /\ Clicks /\ FishingState = "reeling"
            => UNCHANGED <<minigameState, timers, gameState, localStorage>>
       /\ minigameState'.fishing.state = "reeling"
            => \E t \in timers' : t.fn = "resetFishingGame" /\ t.left <= 2500
       /\ pc = "ready" /\ lastCall'.op = "resetFishingGame"
            => minigameState'.fishing.state = "idle"]_vars

\* a click on a bite has rolled a card, and the game is reeling with the
\* button disabled
C27_Witness ==
    /\ lastCall.op = "reelInFish"
    /\ lastCall.pack = "card"
    /\ FishingState = "reeling"
    /\ minigameState.fishing.disabled
    /\ WildHeld(gameState) > 0

\* C28: starting a new fishing round and leaving the minigame view
\* (showMinigameStage('menu')) cancel every pending fishing timer of the
\* round before, so that no callback of a superseded round changes the state
\* later: waiting never becomes idle without a click or a leave, and idle
\* never becomes bite.
C28_NoStaleTimer ==
    [][/\ pc = "ready" /\ lastCall'.op = "startFishing"
            => \A t \in timers' : t.id = minigameState'.fishing.timeout
       /\ pc = "ready" /\ lastCall'.op = "showMinigameStage"
               /\ minigameState'.stage = "menu"
            => timers' = {}
       /\ FishingState = "waiting" /\ minigameState'.fishing.state = "idle"
            => lastCall'.op \in {"failFishing", "showMinigameStage"}
       /\ ~ (FishingState = "idle" /\ minigameState'.fishing.state = "bite")]_vars

\* C31: in every reachable state every inventory entry, whether it came from
\* a pack, from fishing or from sifting, has art 0, 1 or 2, foil "normal" or
\* "foil" and a count of 1 or more.
C31_EntryWellFormed ==
    \A k \in DOMAIN gameState.inventory.cards :
        /\ gameState.inventory.cards[k].art \in {0, 1, 2}
        /\ gameState.inventory.cards[k].foil \in {"normal", "foil"}
        /\ gameState.inventory.cards[k].count >= 1

Key(card) == <<card.cardId, card.art, card.foil>>

OwnedOf(cards, key) == CountAll(SelectSeq(cards, LAMBDA c : Key(c) = key))

KeysDistinct(cards) ==
    \A k, j \in DOMAIN cards : Key(cards[k]) = Key(cards[j]) => k = j

\* The cards the step hands to addCardsToInventory when it opens a pack.
PackCards == IF gameState'.player.packsOpened > gameState.player.packsOpened
             THEN packModal' ELSE <<>>

OneAcquired(before, after) ==
    \/ /\ Len(after) = Len(before)
       /\ \E k \in DOMAIN before :
              /\ after[k] = [before[k] EXCEPT !.count = @ + 1]
              /\ \A j \in DOMAIN before \ {k} : after[j] = before[j]
    \/ /\ Len(after) = Len(before) + 1
       /\ after[Len(after)].count = 1
       /\ \A j \in DOMAIN before : /\ after[j] = before[j]
                                   /\ Key(before[j]) # Key(after[Len(after)])

\* C32: no two inventory entries share the key (cardId, art, foil); a card
\* acquired under a key already present raises that entry's count by one, a
\* card under a new key appends one entry with count 1, and no step removes
\* or re-keys an entry.
C32_OneEntryPerKey ==
    [][pc = "ready" /\ pc' = "ready" =>
        LET before == gameState.inventory.cards
            after == gameState'.inventory.cards
        IN  /\ KeysDistinct(after)
            /\ Len(after) >= Len(before)
            /\ \A k \in DOMAIN before : Key(after[k]) = Key(before[k])
            /\ Calls("openPack") =>
                   /\ \A k \in DOMAIN after :
                          OwnedOf(after, Key(after[k])) =
                              OwnedOf(before, Key(after[k]))
                                  + Len(SelectSeq(PackCards,
                                        LAMBDA c : Key(c) = Key(after[k])))
                   /\ \A k \in DOMAIN PackCards :
                          \E j \in DOMAIN after : Key(after[j]) = Key(PackCards[k])
            /\ Calls("endSiftingGame") => after = before \/ OneAcquired(before, after)]_vars

C32_Witness ==
    /\ pc = "ready"
    /\ lastCall.op = "openPack"
    /\ Len(packModal) = 3
    /\ Len(gameState.inventory.cards) = Len(Trader[1].inventory.cards) + 1
    /\ gameState.inventory.cards[1].count > Trader[1].inventory.cards[1].count
    /\ gameState.inventory.cards[3].count = 1

SelectedOfKey(selection, key) ==
    LET same == {j \in DOMAIN selection : Key(selection[j]) = key}
    IN  IF same = {} THEN 0 ELSE selection[CHOOSE j \in same : TRUE].count

SelectionWithinStock(selection, cards) ==
    \A j \in DOMAIN selection :
        \E k \in DOMAIN cards :
            /\ Key(cards[k]) = Key(selection[j])
            /\ 1 <= selection[j].count
            /\ selection[j].count <= cards[k].count - 1

\* C33: every entry of the conversion selection names an inventory entry and
\* selects at least 1 and at most all but one of its copies; a click on a
\* stack moves its selected count 1, 2, ..., owned - 1 and then drops the
\* entry; and no step of the game (pack, sifting card, conversion) leaves a
\* pending selection outside that bound.
C33_SelectionWithinStock ==
    [][pc = "ready" /\ pc' = "ready" =>
        /\ SelectionWithinStock(conversionSelection, gameState.inventory.cards)
        /\ SelectionWithinStock(conversionSelection', gameState'.inventory.cards)
        /\ Calls("toggleConvertSelect") =>
               \E k \in DOMAIN gameState.inventory.cards :
                   LET card == gameState.inventory.cards[k]
                       was == SelectedOfKey(conversionSelection, Key(card))
                   IN  /\ card.count > 1
                       /\ SelectedOfKey(conversionSelection', Key(card)) =
                              IF was < card.count - 1 THEN was + 1 ELSE 0
                       /\ \A j \in DOMAIN gameState.inventory.cards :
                              Key(gameState.inventory.cards[j]) # Key(card) =>
                                  SelectedOfKey(conversionSelection',
                                                Key(gameState.inventory.cards[j]))
                                      = SelectedOfKey(conversionSelection,
                                                      Key(gameState.inventory.cards[j]))]_vars

C33_Witness ==
    /\ pc = "ready"
    /\ lastCall.op = "openPack"
    /\ gameState.player.packsOpened > Trader[1].player.packsOpened
    /\ SelectedOfKey(conversionSelection, <<"rock-003", 0, "normal">>) = 3
    /\ SelectedOfKey(conversionSelection, <<"rock-001", 0, "normal">>) = 1

\* C34: a started expedition yields exactly one pack grant: the step that
\* makes a slot complete attaches its resolved reward, the tick and the load
\* check leave a complete slot and every pack count as they were, a complete
\* slot changes only by its claim, which grants one pack, and a claim of a
\* slot that is not complete grants nothing.
C34_Step ==
    (Calls("startExpedition") \/ Calls("onGameTick") \/ Calls("claimExpedition")
     \/ LoadCheck)
    => /\ \A i \in Slots :
            LET before == gameState.expeditions[i]
                after == gameState'.expeditions[i]
            IN  /\ (before.status # "complete" /\ after.status = "complete")
                       => after.rewards \in SlotRewards(i)
                /\ (before.status = "complete" /\ after # before)
                       => /\ Calls("claimExpedition")
                          /\ lastCall'.slot = i
                          /\ TotalPacks(gameState') = TotalPacks(gameState) + 1
       /\ (Calls("onGameTick") \/ LoadCheck)
              => gameState'.player.packsInventory = gameState.player.packsInventory
       /\ (Calls("claimExpedition")
           /\ gameState.expeditions[lastCall'.slot].status # "complete")
              => gameState'.player.packsInventory = gameState.player.packsInventory

C34_OneGrantPerExpedition == [][C34_Step]_vars

\* C34 without the restart of a complete slot, on the refactored draft alone
C34_OneGrantPerExpedition_Part000 ==
    [][draft = Part000
       /\ ~ (Calls("startExpedition")
             /\ gameState.expeditions[lastCall'.slot].status = "complete")
           => C34_Step]_vars

\* the cardIds the player owns
OwnedCardIds(gs) == {gs.inventory.cards[k].cardId : k \in DOMAIN gs.inventory.cards}

\* C35: once the page is interactive, after any pack openings, minigame
\* rewards, selections and conversions, the cached player.uniquesOwned is the
\* number of distinct cardIds among the inventory entries.
C35_UniquesOwnedIsDistinctIds ==
    pc = "ready" =>
        gameState.player.uniquesOwned
            = Cardinality(OwnedCardIds(gameState))

C35_Witness ==
    /\ pc = "ready"
    /\ lastCall.op = "openPack"
    /\ gameState.player.packsOpened = 1
    /\ gameState.player.uniquesOwned = 2
    /\ \E k \in DOMAIN gameState.inventory.cards :
           gameState.inventory.cards[k].count = 2

\* C36: in every interactive state each of the five pack counts is a
\* non-negative integer, and a step that lowers a pack count is an openPack
\* of that pack type, which found the count above 0 and lowers it by exactly 1.
C36_PackCountsNatural ==
    [][pc = "ready" /\ pc' = "ready" =>
        /\ DOMAIN gameState'.player.packsInventory = PackTypes
        /\ \A p \in PackTypes :
               LET before == gameState.player.packsInventory[p]
                   after == gameState'.player.packsInventory[p]
               IN  /\ before \in Nat
                   /\ after \in Nat
                   /\ after < before
                          => /\ Calls("openPack")
                             /\ lastCall'.pack = p
                             /\ before > 0
                             /\ after = before - 1]_vars

C36_Witness ==
    /\ pc = "ready"
    /\ lastCall.op = "openPack"
    /\ gameState.player.packsOpened = Trader[1].player.packsOpened + 1
    /\ gameState.player.packsInventory["basic"] = 0
    /\ TotalPacks(gameState) = 1

\* C37: no step of the game lowers packsOpened or takes a cardId out of the
\* inventory (a conversion keeps every entry), so a region that is unlocked
\* before a step is unlocked after it.
C37_RegionsNeverLock ==
    [][pc = "ready" /\ pc' = "ready" =>
        /\ gameState'.player.packsOpened >= gameState.player.packsOpened
        /\ OwnedCardIds(gameState) \subseteq OwnedCardIds(gameState')
        /\ \A k \in DOMAIN RegionIds :
               regionUnlocked(gameState, RegionIds[k])
                   => regionUnlocked(gameState', RegionIds[k])]_vars

C37_Witness ==
    /\ pc = "ready"
    /\ lastCall.op = "confirmConversion"
    /\ lastCall.pack = "explorer"
    /\ gameState.player.packsOpened > Trader[1].player.packsOpened
    /\ Includes(getUnlockedRegions(gameState), "desert")
    /\ \A k \in DOMAIN gameState.inventory.cards :
           gameState.inventory.cards[k].count = 1

\* every owned card is a card of the catalog whose region is unlocked
OwnedFromUnlocked(gs) ==
    \A id \in OwnedCardIds(gs) :
        /\ Includes(CardIds, id)
        /\ Includes(getUnlockedRegions(gs), allCardsData[id].region)

\* C38: in every interactive state reached from a new game by pack openings
\* and minigame rewards, every inventory entry holds a card of the catalog
\* whose region is unlocked in that state.
C38_OwnedFromUnlockedRegions == pc = "ready" => OwnedFromUnlocked(gameState)

\* C38 on the catalogs whose starter region holds a common card
C38_OwnedFromUnlockedRegions_WithCommons ==
    (pc = "ready" /\ catalog # NoCommonsCatalog) => OwnedFromUnlocked(gameState)

\* C39: a sifting round rolls a reward at most once, and only by the click
\* that finds the last of the three target rocks while the countdown is
\* above 0; after the round has ended by time-out no click on a rock of the
\* sieve changes the pack counts or the cards; and the countdown is never
\* below 0.
C39_Step ==
    (pc = "ready" /\ pc' = "ready")
    => LET before == minigameState.sifting
           after == minigameState'.sifting
           rewarded == gameState' # gameState \/ lastCall'.op = "endSiftingGame"
       IN  /\ after.secondsLeft >= 0
           /\ rewarded => /\ before.secondsLeft > 0
                          /\ Cardinality(before.findList) = 1
                          /\ after.findList = {}
           /\ ~ Calls("startSiftingGame") => after.findList \subseteq before.findList

C39_OneRollBeforeTimeout == [][C39_Step]_vars

\* C39 for the rounds that are won in time: the roll is made once, by the
\* click on the last target
C39_WonInTime ==
    [][(pc = "ready" /\ pc' = "ready" /\ minigameState.sifting.secondsLeft > 0)
           => C39_Step]_vars

====
